---------------------------- MODULE Spec2Model ----------------------------
(***************************************************************************)
(* Courier: the application state (src/app.rs), the event loop and the     *)
(* send handler (src/main.rs) and the dispatch task (src/http/client.rs).  *)
(*                                                                         *)
(* Text is a sequence of one-character strings, so that trim, starts_with  *)
(* and format! are computed and not assumed.                               *)
(***************************************************************************)
EXTENDS Integers, Sequences, FiniteSets, TLC

(***************************************************************************)
(* Bounds of the model.                                                    *)
(***************************************************************************)
\* dispatches issued in one run (the guard of SendRequest caps the counter)
MaxSends == 2
\* entries of the request history list
MaxRequests == 2
\* response_scroll is a usize; the scroll-down action is capped here
MaxScroll == 1

\* the line counts and bounds the scroll operations are called with
MaxLines == 4

\* entries of the params list and of the headers list of a RequestData
MaxParams == 2

\* characters the text field holds after insertions
MaxText == 3
MaxKv == 2
MaxKvText == 1
\* the longest URL typed key by key
MaxKeyText == 1
\* the most rows the sidebar's list area has
MaxRows == 2

(***************************************************************************)
(* Text helpers: str::trim, str::starts_with, str::is_empty.               *)
(***************************************************************************)
IsWhitespace(c) == c \in {" ", "\n"}

RECURSIVE TrimStart(_)
TrimStart(s) ==
    IF s # <<>> /\ IsWhitespace(Head(s)) THEN TrimStart(Tail(s)) ELSE s

RECURSIVE TrimEnd(_)
TrimEnd(s) ==
    IF s # <<>> /\ IsWhitespace(s[Len(s)])
    THEN TrimEnd(SubSeq(s, 1, Len(s) - 1))
    ELSE s

\* a send that reads the URL field without trim()
TrimNothing(s) == s

Trim(s) == TrimEnd(TrimStart(s))

StartsWith(s, p) == Len(s) >= Len(p) /\ SubSeq(s, 1, Len(p)) = p

HTTP == <<"h", "t", "t", "p", ":", "/", "/">>
HTTPS == <<"h", "t", "t", "p", "s", ":", "/", "/">>

\* the texts the URL field is given in this model
UrlBlank == <<" ">>
UrlExample == <<"e", "x", "a", "m", "p", "l", "e", ".", "c", "o", "m", "/", "a", "p", "i">>
UrlPadded == <<" ", "x", " ">>
UrlHttp == HTTP \o <<"x">>
UrlHttps == HTTPS \o <<"x">>
UrlInputs == {UrlBlank, UrlExample, UrlPadded, UrlHttp, UrlHttps}

(***************************************************************************)
(* models/request.rs: HttpMethod and Request.                              *)
(***************************************************************************)
HttpMethods == <<"Get", "Post", "Put", "Patch", "Delete", "Head", "Options">>

MethodIndex(m) == CHOOSE i \in 1..Len(HttpMethods) : HttpMethods[i] = m

MethodNext(m) == HttpMethods[(MethodIndex(m) % Len(HttpMethods)) + 1]

MethodPrev(m) ==
    HttpMethods[((MethodIndex(m) + Len(HttpMethods) - 2) % Len(HttpMethods)) + 1]

\* Request::default() = Request::new(HttpMethod::Get, "")
DefaultRequest ==
    [method |-> "Get", url |-> <<>>, params |-> <<>>, headers |-> <<>>,
     body |-> <<>>]

(***************************************************************************)
(* models/response.rs: RequestState and Response.                          *)
(***************************************************************************)
Idle == [tag |-> "Idle", status |-> 0, status_text |-> "", msg |-> ""]
Loading == [tag |-> "Loading", status |-> 0, status_text |-> "", msg |-> ""]
Success(resp) ==
    [tag |-> "Success", status |-> resp.status,
     status_text |-> resp.status_text, msg |-> ""]
Error(m) == [tag |-> "Error", status |-> 0, status_text |-> "", msg |-> m]

\* the status codes the transport answers with in this model
Statuses == {201, 404}

\* StatusCode::canonical_reason().unwrap_or("Unknown")
CanonicalReason(s) ==
    CASE s = 201 -> "Created"
      [] s = 404 -> "Not Found"
      [] OTHER -> "Unknown"

(***************************************************************************)
(* http/client.rs: HttpResult, the transport's errors and their messages.  *)
(***************************************************************************)
\* a reqwest::Error as the three tests execute_request makes of it
TransportErrors == [timeout : BOOLEAN, connect : BOOLEAN, request : BOOLEAN]

\* the connection test made before the timeout test
ClassifyErrorConnectFirst(e) ==
    IF e.connect THEN "Connection failed"
    ELSE IF e.timeout THEN "Request timed out"
    ELSE IF e.request THEN "Invalid request"
    ELSE "Request failed"

ClassifyError(e) ==
    IF e.timeout THEN "Request timed out"
    ELSE IF e.connect THEN "Connection failed"
    ELSE IF e.request THEN "Invalid request"
    ELSE "Request failed"

BodyReadError == "Failed to read response body"

HttpSuccess(id, resp) ==
    [tag |-> "Success", id |-> id, status |-> resp.status,
     status_text |-> resp.status_text, msg |-> ""]

HttpError(id, m) ==
    [tag |-> "Error", id |-> id, status |-> 0, status_text |-> "", msg |-> m]

(***************************************************************************)
(* models/request.rs: KeyValue; app.rs: KvEditor.                          *)
(***************************************************************************)
\* KeyValue::default() with the entry switched off
DefaultKeyValueDisabled == [enabled |-> FALSE, key |-> <<>>, value |-> <<>>]

\* KeyValue::default()
DefaultKeyValue == [enabled |-> TRUE, key |-> <<>>, value |-> <<>>]

\* KvEditor::default(), also what KvEditor::reset leaves; selected is the
\* ListState's selection, None (-1) or an index counted from 0
DefaultKvEditor ==
    [state |-> 0 - 1, field |-> "Key", key_input |-> <<>>,
     value_input |-> <<>>]

\* no RequestData handed over yet, no request built yet
NoData == [method |-> "", url |-> <<>>, params |-> <<>>, headers |-> <<>>,
           body |-> <<>>]
NotBuilt == [url |-> <<>>, headers |-> <<>>, body |-> <<>>, done |-> FALSE]

\* Option::None of the ListState selections and of editing_request_idx
None == 0 - 1

\* the loop of run before its first pass: nothing read yet
LoopStart == [pc |-> "draw", recvs |-> 0, keys |-> 0]

VARIABLES
    \* App (src/app.rs)
    request_state,        \* RequestState
    response_scroll,      \* usize
    url_input,            \* the text of the URL field
    method,               \* HttpMethod
    requests,             \* Vec<Request>
    sidebar_state,        \* ListState::selected(): None or an index (0-based)
    editing_request_idx,  \* Option<usize>
    \* the dispatch bridge (src/main.rs, src/http/client.rs)
    tasks,                \* the tasks rt.spawn started that have not finished
    rx,                   \* the unbounded channel of HttpResult
    next_id,              \* dispatches issued so far (the tasks' numbering)
    applied,              \* the results the event loop has reconciled, in order
    \* App (src/app.rs), the fields beside the request lifecycle
    help_scroll,          \* usize
    params,               \* Vec<KeyValue>
    headers,              \* Vec<KeyValue>
    body,                 \* the text of the body editor
    \* the dispatch task's request (src/http/client.rs)
    data,                 \* the RequestData send_request was called with
    built,                \* the request execute_request has built from it
    \* the text field being edited (the URL field)
    cursor,               \* the cursor's offset in url_input, in characters
    \* App (src/app.rs), the collection editors
    params_editor,        \* KvEditor of the params list
    headers_editor,       \* KvEditor of the headers list
    active_tab,           \* RequestTab
    edit_focus,           \* EditFocus
    json_error,           \* Option<String>: "None", or "Some" with a message
    \* App (src/app.rs), the UI state the key routing of main.rs reads
    focused_panel,        \* Panel
    show_help,            \* bool
    should_quit,          \* bool
    \* the event loop of run (src/main.rs) and what a frame's render writes
    loop,                 \* where the loop stands, and what this pass has read
    sidebar_offset        \* ListState::offset of sidebar_state

appVars ==
    <<request_state, response_scroll, url_input, method, requests,
      sidebar_state, editing_request_idx>>

bridgeVars == <<tasks, rx, next_id, applied>>

kvEditVars == <<params_editor, headers_editor, active_tab, edit_focus>>

uiVars == <<focused_panel, show_help, should_quit>>

runVars == <<sidebar_offset>>

extVars ==
    <<help_scroll, params, headers, body, data, built, cursor, kvEditVars,
      json_error, uiVars, runVars>>

\* the application and its dispatch bridge: everything but the position of
\* the event loop, which no operation of App reads or writes; a
\* specification that runs the operations outside the loop leaves it alone
appState == <<appVars, bridgeVars, extVars>>

vars == <<appState, loop>>

Init ==
    /\ request_state = Idle
    /\ response_scroll = 0
    /\ url_input = <<>>
    /\ method = "Get"
    /\ requests = <<>>
    /\ sidebar_state = None
    /\ editing_request_idx = None
    /\ tasks = {}
    /\ rx = <<>>
    /\ next_id = 0
    /\ applied = <<>>
    /\ help_scroll = 0
    /\ params = <<>>
    /\ headers = <<>>
    /\ body = <<>>
    /\ data = NoData
    /\ built = NotBuilt
    /\ cursor = 0
    /\ params_editor = DefaultKvEditor
    /\ headers_editor = DefaultKvEditor
    /\ active_tab = "Params"
    /\ edit_focus = "None"
    /\ json_error = "None"
    /\ focused_panel = "Sidebar"
    /\ show_help = FALSE
    /\ should_quit = FALSE
    /\ loop = LoopStart
    /\ sidebar_offset = 0


(***************************************************************************)
(* utils.rs: scroll_by.  usize::MAX is written as the largest integer of   *)
(* the model checker; no offset of the model comes near it.                *)
(***************************************************************************)
UsizeMax == 2147483647

Min(a, b) == IF a <= b THEN a ELSE b

SaturatingSub(a, b) == IF a >= b THEN a - b ELSE 0

\* the clamp made at max and not at max - 1
ScrollByToMax(pos, delta, max) ==
    IF delta < 0 THEN SaturatingSub(pos, 0 - delta)
    ELSE IF max > 0 THEN Min(pos + delta, max)
    ELSE pos

ScrollBy(pos, delta, max) ==
    IF delta < 0 THEN SaturatingSub(pos, 0 - delta)
    ELSE IF max > 0 THEN Min(pos + delta, SaturatingSub(max, 1))
    ELSE pos

(***************************************************************************)
(* app.rs: the request state.                                              *)
(***************************************************************************)
is_loading == request_state.tag = "Loading"

\* set_loading without the reset of the scroll offset
set_loading_keeps_scroll ==
    /\ request_state' = Loading
    /\ response_scroll' = response_scroll

set_loading ==
    /\ request_state' = Loading
    /\ response_scroll' = 0

set_response(resp) ==
    /\ request_state' = Success(resp)
    /\ response_scroll' = 0

\* set_error without the reset of the scroll offset
set_error_keeps_scroll(m) ==
    /\ request_state' = Error(m)
    /\ response_scroll' = response_scroll

set_error(m) ==
    /\ request_state' = Error(m)
    /\ response_scroll' = 0

(***************************************************************************)
(* main.rs, send_request: the handler of Ctrl+S.                           *)
(***************************************************************************)
\* the scheme defaulted to http://
SendUrlHttp(url) ==
    IF ~StartsWith(url, HTTP) /\ ~StartsWith(url, HTTPS)
    THEN HTTP \o url
    ELSE url

\* "Auto-prepend https:// if no scheme is present"
SendUrl(url) ==
    IF ~StartsWith(url, HTTP) /\ ~StartsWith(url, HTTPS)
    THEN HTTPS \o url
    ELSE url

\* the request put on the wire before execute_request has built it
NoWire == [method |-> "", url |-> <<>>]

\* rt.spawn(async move { http::send_request(method, url, tx).await }): the
\* task owns the method and the URL it was given
spawn(m, url) ==
    /\ tasks' = tasks \cup
          {[id |-> next_id + 1, method |-> m, url |-> url,
            pc |-> "spawned", status |-> 0, wire |-> NoWire]}
    /\ next_id' = next_id + 1

SendRequest ==
    IF is_loading
    THEN UNCHANGED appState
    ELSE IF Trim(url_input) = <<>>
    THEN /\ set_error("URL is empty")
         /\ UNCHANGED <<url_input, method, requests, sidebar_state,
                        editing_request_idx, bridgeVars, extVars>>
    ELSE /\ next_id < MaxSends
         /\ set_loading
         /\ spawn(method, SendUrl(Trim(url_input)))
         /\ UNCHANGED <<url_input, method, requests, sidebar_state,
                        editing_request_idx, rx, applied, extVars>>

(***************************************************************************)
(* http/client.rs: the dispatch task.  It suspends on request.send() and   *)
(* on response.text(); its result is sent on the channel as it ends.       *)
(***************************************************************************)
\* a task that reads the application's fields when it runs
OutgoingRequestLive(t) == [method |-> method, url |-> url_input]

\* the request execute_request builds from the data it owns
OutgoingRequest(t) == [method |-> t.method, url |-> t.url]

\* an error path that returns without sending its result
send_result_lost(q, result) ==
    IF result.tag = "Error" THEN q ELSE Append(q, result)

\* let _ = tx.send(result)
send_result(q, result) == Append(q, result)

\* the task is polled for the first time: the request is built and sent
ExecuteRequest(t) ==
    /\ t.pc = "spawned"
    /\ tasks' = (tasks \ {t}) \cup
          {[t EXCEPT !.pc = "send", !.wire = OutgoingRequest(t)]}
    /\ UNCHANGED <<extVars, appVars, rx, next_id, applied>>

\* request.send().await is Err(e)
TaskSendFails(t, e) ==
    /\ t.pc = "send"
    /\ tasks' = tasks \ {t}
    /\ rx' = send_result(rx, HttpError(t.id, ClassifyError(e)))
    /\ UNCHANGED <<extVars, appVars, next_id, applied>>

\* request.send().await is Ok(response), with status s
TaskSendOk(t, s) ==
    /\ t.pc = "send"
    /\ tasks' = (tasks \ {t}) \cup {[t EXCEPT !.pc = "text", !.status = s]}
    /\ UNCHANGED <<extVars, appVars, rx, next_id, applied>>

\* response.text().await is Err(e)
TaskTextFails(t) ==
    /\ t.pc = "text"
    /\ tasks' = tasks \ {t}
    /\ rx' = send_result(rx, HttpError(t.id, BodyReadError))
    /\ UNCHANGED <<extVars, appVars, next_id, applied>>

\* response.text().await is Ok(text)
TaskTextOk(t) ==
    /\ t.pc = "text"
    /\ tasks' = tasks \ {t}
    /\ rx' = send_result(rx,
                HttpSuccess(t.id, [status |-> t.status,
                                   status_text |-> CanonicalReason(t.status)]))
    /\ UNCHANGED <<extVars, appVars, next_id, applied>>

\* the steps of the task of dispatch id
TaskStepOf(id) ==
    \E t \in tasks :
        /\ t.id = id
        /\ \/ ExecuteRequest(t)
           \/ \E e \in TransportErrors : TaskSendFails(t, e)
           \/ \E s \in Statuses : TaskSendOk(t, s)
           \/ TaskTextFails(t)
           \/ TaskTextOk(t)

TaskStep == \E id \in 1..MaxSends : TaskStepOf(id)

(***************************************************************************)
(* http/client.rs: the request execute_request builds from its RequestData *)
(* (the URL with its query string, the headers, the body), and             *)
(* urlencoding::encode, which keeps the unreserved characters and writes   *)
(* every other one as a percent sign and two hexadecimal digits.           *)
(***************************************************************************)
Unreserved ==
    {"a", "b", "c", "h", "p", "s", "t", "x", "y", "z",
     "0", "1", "2", "3", "-", "_", ".", "~"}

PercentCode(c) ==
    CASE c = " " -> <<"%", "2", "0">>
      [] c = "&" -> <<"%", "2", "6">>
      [] c = "/" -> <<"%", "2", "F">>
      [] c = ":" -> <<"%", "3", "A">>
      [] c = "=" -> <<"%", "3", "D">>
      [] c = "?" -> <<"%", "3", "F">>
      [] c = "{" -> <<"%", "7", "B">>
      [] c = "[" -> <<"%", "5", "B">>

RECURSIVE UrlEncode(_)
UrlEncode(s) ==
    IF s = <<>> THEN <<>>
    ELSE (IF Head(s) \in Unreserved THEN <<Head(s)>> ELSE PercentCode(Head(s)))
            \o UrlEncode(Tail(s))

Contains(s, c) == \E i \in 1..Len(s) : s[i] = c

\* .filter(|p| p.enabled && !p.key.is_empty())
RECURSIVE EnabledItems(_)
EnabledItems(items) ==
    IF items = <<>> THEN <<>>
    ELSE IF Head(items).enabled /\ Head(items).key # <<>>
         THEN <<Head(items)>> \o EnabledItems(Tail(items))
         ELSE EnabledItems(Tail(items))

\* format!("{}={}", encode(key), encode(value)), joined with "&"
RECURSIVE JoinQuery(_)
JoinQuery(items) ==
    IF items = <<>> THEN <<>>
    ELSE UrlEncode(Head(items).key) \o <<"=">> \o UrlEncode(Head(items).value)
            \o (IF Tail(items) = <<>> THEN <<>>
                ELSE <<"&">> \o JoinQuery(Tail(items)))

\* the query always introduced by "?"
build_url_always_question(base_url, ps) ==
    LET enabled_params == EnabledItems(ps) IN
    IF enabled_params = <<>> THEN base_url
    ELSE base_url \o <<"?">> \o JoinQuery(enabled_params)

build_url_with_params(base_url, ps) ==
    LET enabled_params == EnabledItems(ps) IN
    IF enabled_params = <<>> THEN base_url
    ELSE IF Contains(base_url, "?")
         THEN base_url \o <<"&">> \o JoinQuery(enabled_params)
         ELSE base_url \o <<"?">> \o JoinQuery(enabled_params)

\* str::to_lowercase, on the letters of the header names of this model
LowerChar(c) ==
    CASE c = "C" -> "c"
      [] c = "T" -> "t"
      [] c = "X" -> "x"
      [] c = "A" -> "a"
      [] OTHER -> c

ToLowercase(s) == [i \in 1..Len(s) |-> LowerChar(s[i])]

CONTENT_TYPE == <<"c", "o", "n", "t", "e", "n", "t", "-", "t", "y", "p", "e">>

\* every header with a key applied, the disabled ones too
RECURSIVE AppliedHeadersAll(_)
AppliedHeadersAll(hs) ==
    IF hs = <<>> THEN <<>>
    ELSE IF Head(hs).key # <<>>
         THEN <<[key |-> Head(hs).key, value |-> Head(hs).value]>>
                 \o AppliedHeadersAll(Tail(hs))
         ELSE AppliedHeadersAll(Tail(hs))

\* request.header(&header.key, &header.value) for the enabled headers whose
\* key is not empty
RECURSIVE AppliedHeaders(_)
AppliedHeaders(hs) ==
    IF hs = <<>> THEN <<>>
    ELSE IF Head(hs).enabled /\ Head(hs).key # <<>>
         THEN <<[key |-> Head(hs).key, value |-> Head(hs).value]>>
                 \o AppliedHeaders(Tail(hs))
         ELSE AppliedHeaders(Tail(hs))

has_content_type(hs) ==
    \E i \in 1..Len(hs) :
        hs[i].enabled /\ ToLowercase(hs[i].key) = CONTENT_TYPE

APPLICATION_JSON == <<"a", "p", "p", "l", "i", "c", "a", "t", "i", "o", "n", "/", "j", "s", "o", "n">>
TEXT_PLAIN == <<"t", "e", "x", "t", "/", "p", "l", "a", "i", "n">>
CONTENT_TYPE_NAME == <<"C", "o", "n", "t", "e", "n", "t", "-", "T", "y", "p", "e">>

\* the test made of the body as it is, without trim()
InferredContentTypeUntrimmed(b) ==
    IF StartsWith(b, <<"{">>) \/ StartsWith(b, <<"[">>)
    THEN APPLICATION_JSON
    ELSE TEXT_PLAIN

\* "Try to detect if it's JSON"
InferredContentType(b) ==
    IF StartsWith(Trim(b), <<"{">>) \/ StartsWith(Trim(b), <<"[">>)
    THEN APPLICATION_JSON
    ELSE TEXT_PLAIN

BuiltHeaders(d) ==
    AppliedHeaders(d.headers)
       \o (IF d.body # <<>> /\ ~has_content_type(d.headers)
           THEN <<[key |-> CONTENT_TYPE_NAME,
                   value |-> InferredContentType(d.body)]>>
           ELSE <<>>)

\* the texts and the entries a RequestData is made of in this model
BaseUrls ==
    {<<"h", "t", "t", "p", "s", ":", "/", "/", "x", "/", "y">>,
     <<"h", "t", "t", "p", "s", ":", "/", "/", "x", "/", "y", "?", "z", "=", "1">>,
     <<"h", "t", "t", "p", "s", ":", "/", "/", "x", "/", "y", "?">>}

ParamItems ==
    {[enabled |-> TRUE, key |-> <<"a">>, value |-> <<"1">>],
     [enabled |-> TRUE, key |-> <<"b">>, value |-> <<"2">>],
     [enabled |-> FALSE, key |-> <<"c">>, value |-> <<"3">>],
     [enabled |-> TRUE, key |-> <<>>, value |-> <<"3">>],
     [enabled |-> TRUE, key |-> <<"a", " ", "b">>, value |-> <<"x", "&", "y", "=", "?">>]}

HeaderItems ==
    {[enabled |-> TRUE, key |-> <<"C", "o", "n", "t", "e", "n", "t", "-", "T", "y", "p", "e">>,
      value |-> <<"x">>],
     [enabled |-> FALSE, key |-> CONTENT_TYPE, value |-> <<"y">>],
     [enabled |-> TRUE, key |-> <<"X", "-", "A">>, value |-> <<"1">>],
     [enabled |-> TRUE, key |-> <<>>, value |-> <<"2">>]}

Bodies ==
    {<<>>, <<" ">>, <<" ", "{", "a", "}">>, <<"[", "1", "]">>, <<"a", "{">>}

ListsOf(S) == UNION {[1..n -> S] : n \in 0..MaxParams}

\* the application with a request in its editor: the params, the headers
\* and the body hold what the user has entered
BuildInit ==
    /\ request_state = Idle
    /\ response_scroll = 0
    /\ url_input = <<>>
    /\ method = "Post"
    /\ requests = <<>>
    /\ sidebar_state = None
    /\ editing_request_idx = None
    /\ tasks = {}
    /\ rx = <<>>
    /\ next_id = 0
    /\ applied = <<>>
    /\ help_scroll = 0
    /\ params \in ListsOf(ParamItems)
    /\ headers \in ListsOf(HeaderItems)
    /\ body \in Bodies
    /\ data = NoData
    /\ built = NotBuilt
    /\ cursor = 0
    /\ params_editor = DefaultKvEditor
    /\ headers_editor = DefaultKvEditor
    /\ active_tab = "Params"
    /\ edit_focus = "None"
    /\ json_error = "None"
    /\ focused_panel = "Sidebar"
    /\ show_help = FALSE
    /\ should_quit = FALSE
    /\ loop = LoopStart
    /\ sidebar_offset = 0

\* send_request(client, data, tx): the task is handed a RequestData that
\* owns copies of the method, the params, the headers and the body, and the
\* URL the send has prepared
ReceiveData(url) ==
    /\ data = NoData
    /\ data' = [method |-> method, url |-> url, params |-> params,
                headers |-> headers, body |-> body]
    /\ UNCHANGED <<appVars, bridgeVars, help_scroll, params, headers, body,
                   built, cursor, kvEditVars, json_error,
                   uiVars, runVars>>

\* execute_request, up to request.send()
BuildRequest ==
    /\ data # NoData
    /\ ~built.done
    /\ built' = [url |-> build_url_with_params(data.url, data.params),
                 headers |-> BuiltHeaders(data),
                 body |-> data.body,
                 done |-> TRUE]
    /\ UNCHANGED <<appVars, bridgeVars, help_scroll, params, headers, body,
                   data, cursor, kvEditVars, json_error,
                   uiVars, runVars>>

(***************************************************************************)
(* main.rs, run: one iteration's rx.try_recv().                            *)
(***************************************************************************)
\* an event loop that takes Error results off the channel and drops them
RecvResultIgnoresErrors ==
    /\ rx # <<>>
    /\ LET result == Head(rx) IN
         /\ IF result.tag = "Success"
            THEN set_response([status |-> result.status,
                               status_text |-> result.status_text])
            ELSE UNCHANGED <<request_state, response_scroll>>
         /\ applied' = Append(applied, [id |-> result.id, tag |-> result.tag])
    /\ rx' = Tail(rx)
    /\ UNCHANGED <<url_input, method, requests, sidebar_state,
                   editing_request_idx, tasks, next_id, extVars>>

RecvResult ==
    /\ rx # <<>>
    /\ LET result == Head(rx) IN
         /\ IF result.tag = "Success"
            THEN set_response([status |-> result.status,
                               status_text |-> result.status_text])
            ELSE set_error(result.msg)
         /\ applied' = Append(applied, [id |-> result.id, tag |-> result.tag])
    /\ rx' = Tail(rx)
    /\ UNCHANGED <<url_input, method, requests, sidebar_state,
                   editing_request_idx, tasks, next_id, extVars>>

(***************************************************************************)
(* main.rs, run: the keys routed to the URL field and to the method.       *)
(***************************************************************************)
\* the key presses routed to the URL field leave it holding u
EditUrl(u) ==
    /\ url_input' = u
    /\ UNCHANGED <<request_state, response_scroll, method, requests,
                   sidebar_state, editing_request_idx, bridgeVars, extVars>>

cycle_method_next ==
    /\ method' = MethodNext(method)
    /\ UNCHANGED <<request_state, response_scroll, url_input, requests,
                   sidebar_state, editing_request_idx, bridgeVars, extVars>>

cycle_method_prev ==
    /\ method' = MethodPrev(method)
    /\ UNCHANGED <<request_state, response_scroll, url_input, requests,
                   sidebar_state, editing_request_idx, bridgeVars, extVars>>

(***************************************************************************)
(* app.rs: validate_json.  serde_json::from_str::<Value> on the texts of    *)
(* the model: a number of digits 1, an empty object, an array that is      *)
(* empty or holds one value, with whitespace between the tokens; nothing   *)
(* else over the characters the model types is a JSON value.               *)
(***************************************************************************)
RECURSIVE IsJsonValue(_)
IsJsonValue(text) ==
    LET t == Trim(text)
        n == Len(t)
        inner == Trim(SubSeq(t, 2, n - 1))
    IN /\ n > 0
       /\ \/ \A i \in 1..n : t[i] = "1"
          \/ n >= 2 /\ t[1] = "{" /\ t[n] = "}" /\ inner = <<>>
          \/ n >= 2 /\ t[1] = "[" /\ t[n] = "]"
                    /\ (inner = <<>> \/ IsJsonValue(inner))

\* validate_json with every body accepted
validate_json_accepts(text) == "None"

\* App::validate_json: the json_error it leaves for the body text
validate_json(text) ==
    IF Trim(text) = <<>>
    THEN "None"
    ELSE IF IsJsonValue(text) THEN "None" ELSE "Some"

\* App::set_body as App::body reads it back: the editor holds text.lines(),
\* and str::lines leaves out the line break that ends the text
set_body(text) ==
    IF text # <<>> /\ text[Len(text)] = "\n"
    THEN SubSeq(text, 1, Len(text) - 1)
    ELSE text

\* serde_json::to_string_pretty of the value a text parses to: digits as
\* they are, "{}" and "[]" for the empty object and array, and an array's
\* value on a line of its own, two spaces deeper than the brackets
Spaces(n) == [i \in 1..n |-> " "]

RECURSIVE to_string_pretty(_, _)
to_string_pretty(text, indent) ==
    LET t == Trim(text)
        inner == Trim(SubSeq(t, 2, Len(t) - 1))
    IN IF t[1] = "{" THEN <<"{", "}">>
       ELSE IF t[1] = "["
       THEN IF inner = <<>>
            THEN <<"[", "]">>
            ELSE <<"[", "\n">> \o Spaces(indent + 2)
                 \o to_string_pretty(inner, indent + 2)
                 \o <<"\n">> \o Spaces(indent) \o <<"]">>
       ELSE t

(***************************************************************************)
(* app.rs: the sidebar's request history list.                             *)
(***************************************************************************)
\* ListState::selected().unwrap_or(0)
selected_request == IF sidebar_state = None THEN 0 ELSE sidebar_state

\* Vec::insert(0, x) and Vec::remove(i), i counted from 0
\* Vec::push in place of Vec::insert(0, x)
InsertBack(list, x) == Append(list, x)

InsertFront(list, x) == <<x>> \o list

RemoveAt(list, i) == SubSeq(list, 1, i) \o SubSeq(list, i + 2, Len(list))

select_next_request ==
    /\ IF requests = <<>>
       THEN sidebar_state' = sidebar_state
       ELSE sidebar_state' =
               IF sidebar_state = None THEN 0
               ELSE (sidebar_state + 1) % Len(requests)
    /\ UNCHANGED <<request_state, response_scroll, url_input, method, requests,
                   editing_request_idx, bridgeVars, extVars>>

select_prev_request ==
    /\ IF requests = <<>>
       THEN sidebar_state' = sidebar_state
       ELSE sidebar_state' =
               IF sidebar_state = None THEN 0
               ELSE IF sidebar_state = 0 THEN Len(requests) - 1
               ELSE sidebar_state - 1
    /\ UNCHANGED <<request_state, response_scroll, url_input, method, requests,
                   editing_request_idx, bridgeVars, extVars>>

\* main.rs, key 'n': app.add_request(models::Request::default())
add_request(request) ==
    /\ Len(requests) < MaxRequests
    /\ requests' = InsertFront(requests, request)
    /\ sidebar_state' = 0
    /\ editing_request_idx' = 0
    /\ UNCHANGED <<request_state, response_scroll, url_input, method,
                   bridgeVars, extVars>>

\* the state new_request leaves in request_state: RequestState::default()
NewRequestState == Idle

\* new_request with the two editors left as they were
new_request_keeps_editors ==
    /\ Len(requests) < MaxRequests
    /\ requests' = InsertFront(requests, DefaultRequest)
    /\ sidebar_state' = 0
    /\ editing_request_idx' = 0
    /\ url_input' = <<>>
    /\ method' = "Get"
    /\ params' = <<>>
    /\ headers' = <<>>
    /\ body' = set_body(<<>>)
    /\ json_error' = validate_json(set_body(<<>>))
    /\ request_state' = NewRequestState
    /\ cursor' = 0
    /\ UNCHANGED <<response_scroll, bridgeVars, help_scroll, data, built,
                   kvEditVars, uiVars, runVars>>

new_request ==
    /\ Len(requests) < MaxRequests
    /\ requests' = InsertFront(requests, DefaultRequest)
    /\ sidebar_state' = 0
    /\ editing_request_idx' = 0
    /\ url_input' = <<>>
    /\ method' = "Get"
    /\ params' = <<>>
    /\ headers' = <<>>
    /\ body' = set_body(<<>>)
    /\ params_editor' = DefaultKvEditor
    /\ headers_editor' = DefaultKvEditor
    /\ json_error' = validate_json(set_body(<<>>))
    /\ request_state' = NewRequestState
    /\ cursor' = 0
    /\ UNCHANGED <<response_scroll, bridgeVars, help_scroll, data, built,
                   active_tab, edit_focus, uiVars, runVars>>

update_request(idx, request) ==
    /\ requests' = IF idx < Len(requests)
                   THEN [requests EXCEPT ![idx + 1] = request]
                   ELSE requests
    /\ UNCHANGED <<request_state, response_scroll, url_input, method,
                   sidebar_state, editing_request_idx, bridgeVars, extVars>>

\* delete_selected_request that clears the edit pointer when it pointed at
\* the removed request and leaves it alone otherwise
delete_selected_request_keeps_pointer ==
    /\ IF requests # <<>>
       THEN LET selected == selected_request
                rest == RemoveAt(requests, selected)
            IN /\ requests' = rest
               /\ editing_request_idx' =
                     IF editing_request_idx = selected
                     THEN None
                     ELSE editing_request_idx
               /\ sidebar_state' =
                     IF selected >= Len(rest) /\ rest # <<>>
                     THEN Len(rest) - 1
                     ELSE sidebar_state
       ELSE UNCHANGED <<requests, editing_request_idx, sidebar_state>>
    /\ UNCHANGED <<request_state, response_scroll, url_input, method,
                   bridgeVars, extVars>>

delete_selected_request ==
    /\ IF requests # <<>>
       THEN LET selected == selected_request
                rest == RemoveAt(requests, selected)
            IN /\ requests' = rest
               /\ editing_request_idx' =
                     IF editing_request_idx = None THEN None
                     ELSE IF editing_request_idx = selected THEN None
                     ELSE IF editing_request_idx > selected
                          THEN editing_request_idx - 1
                     ELSE editing_request_idx
               /\ sidebar_state' =
                     IF selected >= Len(rest) /\ rest # <<>>
                     THEN Len(rest) - 1
                     ELSE sidebar_state
       ELSE UNCHANGED <<requests, editing_request_idx, sidebar_state>>
    /\ UNCHANGED <<request_state, response_scroll, url_input, method,
                   bridgeVars, extVars>>

\* load_selected_request with new_request's reset of the request state
load_selected_request_resets ==
    LET idx == selected_request IN
    IF idx < Len(requests)
    THEN /\ editing_request_idx' = idx
         /\ url_input' = requests[idx + 1].url
         /\ method' = requests[idx + 1].method
         /\ params' = requests[idx + 1].params
         /\ headers' = requests[idx + 1].headers
         /\ body' = set_body(requests[idx + 1].body)
         /\ params_editor' = DefaultKvEditor
         /\ headers_editor' = DefaultKvEditor
         /\ json_error' = validate_json(set_body(requests[idx + 1].body))
         /\ request_state' = Idle
         /\ cursor' = 0
         /\ UNCHANGED <<response_scroll, requests, sidebar_state, bridgeVars,
                        help_scroll, data, built, active_tab,
                        edit_focus, uiVars, runVars>>
    ELSE UNCHANGED appState

\* load_selected_request, and the panel its caller leaves focused (main.rs,
\* keys i and Enter on the sidebar: app.focused_panel = Panel::RequestEditor)
LoadSelectedRequest(panel) ==
    LET idx == selected_request IN
    /\ focused_panel' = panel
    /\ IF idx < Len(requests)
       THEN /\ editing_request_idx' = idx
            /\ url_input' = requests[idx + 1].url
            /\ method' = requests[idx + 1].method
            /\ params' = requests[idx + 1].params
            /\ headers' = requests[idx + 1].headers
            /\ body' = set_body(requests[idx + 1].body)
            /\ params_editor' = DefaultKvEditor
            /\ headers_editor' = DefaultKvEditor
            /\ json_error' = validate_json(set_body(requests[idx + 1].body))
            /\ cursor' = 0
            /\ UNCHANGED <<request_state, response_scroll, requests,
                           sidebar_state, bridgeVars, help_scroll, data,
                           built, active_tab, edit_focus, show_help,
                           should_quit, runVars>>
       ELSE UNCHANGED <<appVars, bridgeVars, help_scroll, params, headers,
                        body, data, built, cursor, kvEditVars, json_error,
                        show_help, should_quit, runVars>>

load_selected_request == LoadSelectedRequest(focused_panel)

(***************************************************************************)
(* app.rs: response scrolling.                                             *)
(***************************************************************************)
response_scroll_up ==
    /\ response_scroll' = ScrollBy(response_scroll, 0 - 1, UsizeMax)
    /\ UNCHANGED <<request_state, url_input, method, requests, sidebar_state,
                   editing_request_idx, bridgeVars, extVars>>

response_scroll_down ==
    /\ response_scroll < MaxScroll
    /\ response_scroll' = ScrollBy(response_scroll, 1, UsizeMax)
    /\ UNCHANGED <<request_state, url_input, method, requests, sidebar_state,
                   editing_request_idx, bridgeVars, extVars>>

response_scroll_top ==
    /\ response_scroll' = 0
    /\ UNCHANGED <<request_state, url_input, method, requests, sidebar_state,
                   editing_request_idx, bridgeVars, extVars>>

response_scroll_bottom(max) ==
    /\ response_scroll' = IF max > 0 THEN SaturatingSub(max, 1)
                          ELSE response_scroll
    /\ UNCHANGED <<request_state, url_input, method, requests, sidebar_state,
                   editing_request_idx, bridgeVars, extVars>>

(***************************************************************************)
(* app.rs and main.rs: scrolling of the help overlay.                      *)
(***************************************************************************)
\* main.rs: "Total number of lines in the help overlay"
HELP_TOTAL_LINES == 28

\* the line counts and the bounds the callers pass
ScrollLines == 0..MaxLines
ScrollBounds == (0..MaxLines) \cup {HELP_TOTAL_LINES}

help_scroll_up(lines) ==
    /\ help_scroll' = ScrollBy(help_scroll, 0 - lines, UsizeMax)
    /\ UNCHANGED <<appVars, bridgeVars, params, headers, body, data, built, cursor,
                   kvEditVars, json_error, uiVars, runVars>>

help_scroll_down(lines, max) ==
    /\ help_scroll' = ScrollBy(help_scroll, lines, max)
    /\ UNCHANGED <<appVars, bridgeVars, params, headers, body, data, built, cursor,
                   kvEditVars, json_error, uiVars, runVars>>

\* main.rs, key 'g' of the help overlay: app.help_scroll = 0
help_scroll_top ==
    /\ help_scroll' = 0
    /\ UNCHANGED <<appVars, bridgeVars, params, headers, body, data, built, cursor,
                   kvEditVars, json_error, uiVars, runVars>>

(***************************************************************************)
(* The text field editor behind the keys of input mode (main.rs, run):     *)
(* one line of text and a cursor, with the operations the key routing      *)
(* calls.  The cursor counts characters; the character before the cursor   *)
(* is url_input[cursor].                                                   *)
(***************************************************************************)
IsAlphanumeric(c) ==
    c \in {"a", "d", "e", "h", "l", "o", "r", "w", "1"}

\* the characters typed in this model
TypedChars == {"a", " ", "."}

HelloWorld == <<"h", "e", "l", "l", "o", " ", "w", "o", "r", "l", "d">>

RECURSIVE SkipBackWhile(_, _, _)
\* scan back from position i while the character before it is (alnum = TRUE)
\* or is not (alnum = FALSE) alphanumeric
SkipBackWhile(s, i, alnum) ==
    IF i > 0 /\ (IsAlphanumeric(s[i]) = alnum)
    THEN SkipBackWhile(s, i - 1, alnum)
    ELSE i

RECURSIVE SkipForwardWhile(_, _, _)
SkipForwardWhile(s, i, alnum) ==
    IF i < Len(s) /\ (IsAlphanumeric(s[i + 1]) = alnum)
    THEN SkipForwardWhile(s, i + 1, alnum)
    ELSE i

\* the two runs skipped in the order of the forward scan
WordBoundaryLeftSwapped(s, i) ==
    SkipBackWhile(s, SkipBackWhile(s, i, TRUE), FALSE)

\* "first skip any run of non-alphanumeric characters, then skip the run of
\* alphanumeric characters that follows"
WordBoundaryLeft(s, i) == SkipBackWhile(s, SkipBackWhile(s, i, FALSE), TRUE)

\* "skip the current alphanumeric run, then skip the following
\* non-alphanumeric run"
WordBoundaryRight(s, i) ==
    SkipForwardWhile(s, SkipForwardWhile(s, i, TRUE), FALSE)

textFrame ==
    UNCHANGED <<request_state, response_scroll, method, requests,
                sidebar_state, editing_request_idx, bridgeVars, help_scroll,
                params, headers, body, data, built, kvEditVars,
                json_error, uiVars, runVars>>

input_char(c) ==
    /\ Len(url_input) < MaxText
    /\ url_input' = SubSeq(url_input, 1, cursor) \o <<c>>
                       \o SubSeq(url_input, cursor + 1, Len(url_input))
    /\ cursor' = cursor + 1
    /\ textFrame

delete_char ==
    /\ IF cursor > 0
       THEN /\ url_input' = SubSeq(url_input, 1, cursor - 1)
                               \o SubSeq(url_input, cursor + 1, Len(url_input))
            /\ cursor' = cursor - 1
       ELSE UNCHANGED <<url_input, cursor>>
    /\ textFrame

delete_char_forward ==
    /\ IF cursor < Len(url_input)
       THEN url_input' = SubSeq(url_input, 1, cursor)
                            \o SubSeq(url_input, cursor + 2, Len(url_input))
       ELSE url_input' = url_input
    /\ cursor' = cursor
    /\ textFrame

move_cursor_left ==
    /\ cursor' = IF cursor > 0 THEN cursor - 1 ELSE cursor
    /\ url_input' = url_input
    /\ textFrame

move_cursor_right ==
    /\ cursor' = IF cursor < Len(url_input) THEN cursor + 1 ELSE cursor
    /\ url_input' = url_input
    /\ textFrame

move_cursor_start ==
    /\ cursor' = 0
    /\ url_input' = url_input
    /\ textFrame

move_cursor_end ==
    /\ cursor' = Len(url_input)
    /\ url_input' = url_input
    /\ textFrame

move_cursor_word_left ==
    /\ cursor' = WordBoundaryLeft(url_input, cursor)
    /\ url_input' = url_input
    /\ textFrame

move_cursor_word_right ==
    /\ cursor' = WordBoundaryRight(url_input, cursor)
    /\ url_input' = url_input
    /\ textFrame

\* delete_to_start that leaves the cursor where it was
delete_to_start_keeps_cursor ==
    /\ url_input' = SubSeq(url_input, cursor + 1, Len(url_input))
    /\ cursor' = cursor
    /\ textFrame

delete_to_start ==
    /\ url_input' = SubSeq(url_input, cursor + 1, Len(url_input))
    /\ cursor' = 0
    /\ textFrame

delete_to_end ==
    /\ url_input' = SubSeq(url_input, 1, cursor)
    /\ cursor' = cursor
    /\ textFrame

delete_word_backward ==
    /\ LET boundary == WordBoundaryLeft(url_input, cursor) IN
         /\ url_input' = SubSeq(url_input, 1, boundary)
                            \o SubSeq(url_input, cursor + 1, Len(url_input))
         /\ cursor' = boundary
    /\ textFrame

clear_input ==
    /\ url_input' = <<>>
    /\ cursor' = 0
    /\ textFrame

(***************************************************************************)
(* app.rs: the editors of the params and headers lists.  The operations of *)
(* KvEditor are operators on an editor record, the operations of App on    *)
(* "the current collection" are actions on the pair the active tab names.  *)
(***************************************************************************)
RequestTabs == {"Params", "Headers", "Body"}
EditFocuses == {"None", "Url", "KeyValue", "Body"}

\* KvField::toggle
KvFieldToggle(field) == IF field = "Key" THEN "Value" ELSE "Key"

\* KvEditor::selected: state.selected().unwrap_or(0)
selected(editor) == IF editor.state = None THEN 0 ELSE editor.state

\* KvEditor::select
select(editor, index) == [editor EXCEPT !.state = index]

\* KvEditor::select_next
select_next(editor, len) ==
    IF len = 0
    THEN editor
    ELSE select(editor,
                IF editor.state = None THEN 0 ELSE (editor.state + 1) % len)

\* KvEditor::select_prev
select_prev(editor, len) ==
    IF len = 0
    THEN editor
    ELSE select(editor,
                IF editor.state = None
                THEN 0
                ELSE IF editor.state = 0 THEN len - 1 ELSE editor.state - 1)

\* KvEditor::toggle_field
toggle_field(editor) == [editor EXCEPT !.field = KvFieldToggle(editor.field)]

\* KvEditor::sync_from_item
sync_from_item(editor, item) ==
    [editor EXCEPT !.key_input = item.key, !.value_input = item.value]

\* App::current_kv_items and App::current_kv_editor
current_kv_items == IF active_tab = "Params" THEN params ELSE headers

current_kv_editor ==
    IF active_tab = "Params" THEN params_editor ELSE headers_editor

\* what the _mut accessors give write access to: the list and the editor of
\* the active tab, the other pair left alone
SetCurrentKv(items, editor) ==
    IF active_tab = "Params"
    THEN /\ params' = items
         /\ params_editor' = editor
         /\ UNCHANGED <<headers, headers_editor>>
    ELSE /\ headers' = items
         /\ headers_editor' = editor
         /\ UNCHANGED <<params, params_editor>>

\* App::sync_kv_editor_from_items: items.get(selected) is None out of range
sync_kv_editor_from_items(items, editor) ==
    IF selected(editor) < Len(items)
    THEN sync_from_item(editor, items[selected(editor) + 1])
    ELSE editor

\* App::sync_kv_items_from_editor
sync_kv_items_from_editor(items, editor) ==
    IF selected(editor) < Len(items)
    THEN [items EXCEPT ![selected(editor) + 1].key = editor.key_input,
                       ![selected(editor) + 1].value = editor.value_input]
    ELSE items

\* everything the collection operations leave alone
kvFrame ==
    UNCHANGED <<appVars, bridgeVars, help_scroll, body, data, built, cursor,
                uiVars, runVars>>

start_editing(focus) ==
    /\ edit_focus' = focus
    /\ SetCurrentKv(current_kv_items,
                    IF focus = "KeyValue"
                    THEN sync_kv_editor_from_items(current_kv_items,
                                                   current_kv_editor)
                    ELSE current_kv_editor)
    /\ UNCHANGED <<active_tab, json_error>>
    /\ kvFrame

stop_editing ==
    /\ SetCurrentKv(IF edit_focus = "KeyValue"
                    THEN sync_kv_items_from_editor(current_kv_items,
                                                   current_kv_editor)
                    ELSE current_kv_items,
                    current_kv_editor)
    /\ json_error' = IF edit_focus = "Body"
                      THEN validate_json(body)
                      ELSE json_error
    /\ edit_focus' = "None"
    /\ UNCHANGED active_tab
    /\ kvFrame

kv_add ==
    /\ Len(current_kv_items) < MaxKv
    /\ LET items == Append(current_kv_items, DefaultKeyValue)
           len == Len(items)
       IN SetCurrentKv(items,
                       [select(current_kv_editor, SaturatingSub(len, 1))
                           EXCEPT !.field = "Key",
                                  !.key_input = <<>>,
                                  !.value_input = <<>>])
    /\ UNCHANGED <<active_tab, edit_focus, json_error>>
    /\ kvFrame

\* kv_delete with the selection left where it was
KvDeleteSelectKeeps(editor, new_len) == editor

\* the editor kv_delete leaves, the list having new_len entries left
KvDeleteSelect(editor, new_len) ==
    IF selected(editor) >= new_len /\ new_len > 0
    THEN select(editor, new_len - 1)
    ELSE editor

\* kv_delete on one list and its editor: what it leaves of the two
KvDelete(items, editor) ==
    IF Len(items) = 0
    THEN [items |-> items, editor |-> editor]
    ELSE LET rest == RemoveAt(items, selected(editor))
         IN [items |-> rest, editor |-> KvDeleteSelect(editor, Len(rest))]

\* Vec::remove panics on an index that is not in the list: no step then
kv_delete ==
    /\ Len(current_kv_items) > 0 => selected(current_kv_editor)
                                        < Len(current_kv_items)
    /\ LET left == KvDelete(current_kv_items, current_kv_editor)
       IN SetCurrentKv(left.items, left.editor)
    /\ UNCHANGED <<active_tab, edit_focus, json_error>>
    /\ kvFrame

\* kv_toggle_enabled that also writes the list into the request the edit
\* pointer designates
kv_toggle_enabled_writes_through ==
    /\ LET idx == selected(current_kv_editor)
           items == IF idx < Len(current_kv_items)
                    THEN [current_kv_items EXCEPT
                             ![idx + 1].enabled =
                                 ~current_kv_items[idx + 1].enabled]
                    ELSE current_kv_items
       IN /\ SetCurrentKv(items, current_kv_editor)
          /\ requests' =
                IF editing_request_idx # None
                   /\ editing_request_idx < Len(requests)
                THEN IF active_tab = "Params"
                     THEN [requests EXCEPT
                              ![editing_request_idx + 1].params = items]
                     ELSE [requests EXCEPT
                              ![editing_request_idx + 1].headers = items]
                ELSE requests
    /\ UNCHANGED <<active_tab, edit_focus, json_error>>
    /\ UNCHANGED <<request_state, response_scroll, url_input, method,
                   sidebar_state, editing_request_idx, bridgeVars,
                   help_scroll, body, data, built, cursor, uiVars,
                   runVars>>

kv_toggle_enabled ==
    /\ LET idx == selected(current_kv_editor) IN
       SetCurrentKv(IF idx < Len(current_kv_items)
                    THEN [current_kv_items EXCEPT
                             ![idx + 1].enabled = ~current_kv_items[idx + 1].enabled]
                    ELSE current_kv_items,
                    current_kv_editor)
    /\ UNCHANGED <<active_tab, edit_focus, json_error>>
    /\ kvFrame

\* kv_navigate that moves the selection without writing the inputs back
kv_navigate_no_flush(forward) ==
    /\ LET editing == edit_focus = "KeyValue"
           moved == IF forward
                    THEN select_next(current_kv_editor, Len(current_kv_items))
                    ELSE select_prev(current_kv_editor, Len(current_kv_items))
       IN SetCurrentKv(current_kv_items,
                       IF editing
                       THEN sync_kv_editor_from_items(current_kv_items, moved)
                       ELSE moved)
    /\ UNCHANGED <<active_tab, edit_focus, json_error>>
    /\ kvFrame

kv_navigate(forward) ==
    /\ LET editing == edit_focus = "KeyValue"
           items == IF editing
                    THEN sync_kv_items_from_editor(current_kv_items,
                                                   current_kv_editor)
                    ELSE current_kv_items
           moved == IF forward
                    THEN select_next(current_kv_editor, Len(items))
                    ELSE select_prev(current_kv_editor, Len(items))
       IN SetCurrentKv(items,
                       IF editing
                       THEN sync_kv_editor_from_items(items, moved)
                       ELSE moved)
    /\ UNCHANGED <<active_tab, edit_focus, json_error>>
    /\ kvFrame

kv_select_next == kv_navigate(TRUE)

kv_select_prev == kv_navigate(FALSE)

kv_toggle_field ==
    /\ SetCurrentKv(current_kv_items, toggle_field(current_kv_editor))
    /\ UNCHANGED <<active_tab, edit_focus, json_error>>
    /\ kvFrame

\* a character typed while a key/value entry is edited: it goes to the
\* input KvEditor::current_input_mut() names, the one of the focused field
KvTypedChars == {"k"}

kv_input_char(c) ==
    /\ edit_focus = "KeyValue"
    /\ LET editor == current_kv_editor IN
       IF editor.field = "Key"
       THEN /\ Len(editor.key_input) < MaxKvText
            /\ SetCurrentKv(current_kv_items,
                            [editor EXCEPT !.key_input = Append(@, c)])
       ELSE /\ Len(editor.value_input) < MaxKvText
            /\ SetCurrentKv(current_kv_items,
                            [editor EXCEPT !.value_input = Append(@, c)])
    /\ UNCHANGED <<active_tab, edit_focus, json_error>>
    /\ kvFrame

\* the body editor's text after the keys typed while the body is edited
BodyTexts ==
    {<<>>, <<" ">>, <<"{", "}">>, <<"[", " ", "1", "]">>, <<"{", "a">>,
     <<"a">>}

EditBody(text) ==
    /\ edit_focus = "Body"
    /\ body' = text
    /\ UNCHANGED <<appVars, bridgeVars, help_scroll, params, headers, data,
                   built, cursor, kvEditVars, json_error, uiVars,
                   runVars>>

\* format_json that clears json_error whatever the body is
format_json_clears ==
    /\ IF IsJsonValue(body)
       THEN /\ body' = set_body(to_string_pretty(body, 0))
            /\ cursor' = 0
       ELSE UNCHANGED <<body, cursor>>
    /\ json_error' = "None"
    /\ UNCHANGED <<appVars, bridgeVars, help_scroll, params, headers, data,
                   built, kvEditVars, uiVars, runVars>>

\* App::format_json: a body that parses is replaced by its pretty-printed
\* form through set_body; any other body is left alone
format_json ==
    /\ IF IsJsonValue(body)
       THEN /\ body' = set_body(to_string_pretty(body, 0))
            /\ cursor' = 0
            /\ json_error' = "None"
       ELSE UNCHANGED <<body, cursor, json_error>>
    /\ UNCHANGED <<appVars, bridgeVars, help_scroll, params, headers, data,
                   built, kvEditVars, uiVars, runVars>>

\* the tab shown: active_tab is a public field the key routing assigns
SelectTab(tab) ==
    /\ active_tab' = tab
    /\ UNCHANGED <<params, headers, params_editor, headers_editor, edit_focus,
                   json_error>>
    /\ kvFrame

(***************************************************************************)
(* app.rs: panels, the help overlay and quitting.                          *)
(***************************************************************************)
Panels == {"Sidebar", "RequestEditor", "Response"}

\* Panel::next and Panel::prev
PanelNext(panel) ==
    IF panel = "Sidebar" THEN "RequestEditor"
    ELSE IF panel = "RequestEditor" THEN "Response"
    ELSE "Sidebar"

\* a prev that steps the way next does
PanelPrevForward(panel) ==
    IF panel = "Sidebar" THEN "RequestEditor"
    ELSE IF panel = "RequestEditor" THEN "Response"
    ELSE "Sidebar"

PanelPrev(panel) ==
    IF panel = "Sidebar" THEN "Response"
    ELSE IF panel = "RequestEditor" THEN "Sidebar"
    ELSE "RequestEditor"

uiFrame ==
    UNCHANGED <<appVars, bridgeVars, params, headers, body, data, built,
                cursor, kvEditVars, json_error, runVars>>

focus_next_panel ==
    /\ focused_panel' = PanelNext(focused_panel)
    /\ UNCHANGED <<help_scroll, show_help, should_quit>>
    /\ uiFrame

focus_prev_panel ==
    /\ focused_panel' = PanelPrev(focused_panel)
    /\ UNCHANGED <<help_scroll, show_help, should_quit>>
    /\ uiFrame

toggle_help ==
    /\ show_help' = ~show_help
    /\ help_scroll' = IF show_help' THEN 0 ELSE help_scroll
    /\ UNCHANGED <<focused_panel, should_quit>>
    /\ uiFrame

\* main.rs, the help overlay's Esc, q and ?: app.show_help = false
close_help ==
    /\ show_help' = FALSE
    /\ UNCHANGED <<help_scroll, focused_panel, should_quit>>
    /\ uiFrame

\* a quit that leaves should_quit as it was
quit_ignored ==
    /\ should_quit' = should_quit
    /\ UNCHANGED <<help_scroll, focused_panel, show_help>>
    /\ uiFrame

quit ==
    /\ should_quit' = TRUE
    /\ UNCHANGED <<help_scroll, focused_panel, show_help>>
    /\ uiFrame

is_editing == edit_focus # "None"

(***************************************************************************)
(* main.rs, run: the routing of one key press.  The routing reads          *)
(* app.input_mode and calls enter_input_mode and exit_input_mode, which    *)
(* app.rs names is_editing(), start_editing(EditFocus::Url) and            *)
(* stop_editing().                                                         *)
(***************************************************************************)
\* a routing that never takes the input-mode branch
input_mode_off == FALSE

input_mode == is_editing

enter_input_mode == start_editing("Url")

exit_input_mode == stop_editing

\* main.rs, get_response_line_count: 0 unless a response is shown; the lines
\* of a response's body are not part of RequestState here
ResponseLineCounts ==
    IF request_state.tag = "Success" THEN ScrollLines ELSE {0}

\* app.scroll_response_down(lines, max) and app.scroll_response_up(lines)
scroll_response(delta, max) ==
    /\ response_scroll' = ScrollBy(response_scroll, delta, max)
    /\ UNCHANGED <<request_state, url_input, method, requests, sidebar_state,
                   editing_request_idx, bridgeVars, extVars>>

Key(code, ctrl, alt) == [code |-> code, ctrl |-> ctrl, alt |-> alt]

\* KeyCode::Char(c), for the characters the routing names
CharCodes == {"h", "j", "k", "l", "n", "d", "i", "q", "?", "g", "G", "s",
              "a", "e", "u", "w", "c"}

\* if app.show_help { match key.code { ... } continue; }
HelpKey(key) ==
    IF key.code \in {"Esc", "q", "?"} THEN close_help
    ELSE IF key.code \in {"j", "Down"}
         THEN /\ help_scroll < MaxScroll
              /\ help_scroll_down(1, HELP_TOTAL_LINES)
    ELSE IF key.code \in {"k", "Up"} THEN help_scroll_up(1)
    ELSE IF key.code = "g" THEN help_scroll_top
    ELSE IF key.code = "G"
         THEN help_scroll_down(HELP_TOTAL_LINES, HELP_TOTAL_LINES)
    ELSE UNCHANGED appState

\* if app.input_mode { match key.code { ... } continue; }
InputModeKey(key) ==
    LET ctrl == key.ctrl
        alt == key.alt
    IN
    IF key.code = "Esc" THEN exit_input_mode
    ELSE IF key.code = "s" /\ ctrl THEN SendRequest
    ELSE IF key.code = "Left" /\ (ctrl \/ alt) THEN move_cursor_word_left
    ELSE IF key.code = "Right" /\ (ctrl \/ alt) THEN move_cursor_word_right
    ELSE IF key.code = "Left" THEN move_cursor_left
    ELSE IF key.code = "Right" THEN move_cursor_right
    ELSE IF key.code \in {"Home", "a"} /\ ctrl THEN move_cursor_start
    ELSE IF key.code \in {"End", "e"} /\ ctrl THEN move_cursor_end
    ELSE IF key.code = "Backspace" /\ (ctrl \/ alt) THEN delete_word_backward
    ELSE IF key.code = "Backspace" THEN delete_char
    ELSE IF key.code = "Delete" THEN delete_char_forward
    ELSE IF key.code = "u" /\ ctrl THEN delete_to_start
    ELSE IF key.code = "k" /\ ctrl THEN delete_to_end
    ELSE IF key.code = "w" /\ ctrl THEN delete_word_backward
    ELSE IF key.code = "l" /\ ctrl THEN clear_input
    ELSE IF key.code = "Tab" THEN cycle_method_next
    ELSE IF key.code = "BackTab" THEN cycle_method_prev
    ELSE IF key.code \in CharCodes
         THEN /\ Len(url_input) < MaxKeyText
              /\ input_char(key.code)
    ELSE UNCHANGED appState

\* Normal mode handling
NormalModeKey(key) ==
    LET ctrl == key.ctrl IN
    IF key.code = "q" THEN quit
    ELSE IF key.code = "c" /\ ctrl THEN quit
    ELSE IF key.code = "Esc" THEN quit
    ELSE IF key.code = "?" THEN toggle_help
    ELSE IF key.code = "s" /\ ctrl THEN SendRequest
    ELSE IF key.code \in {"i", "Enter"}
         THEN IF focused_panel = "RequestEditor" THEN enter_input_mode
              ELSE IF focused_panel = "Sidebar"
                   THEN LoadSelectedRequest("RequestEditor")
              ELSE UNCHANGED appState
    ELSE IF key.code = "Tab" THEN focus_next_panel
    ELSE IF key.code = "BackTab" THEN focus_prev_panel
    ELSE IF key.code \in {"h", "Left"} THEN focus_prev_panel
    ELSE IF key.code \in {"l", "Right"} THEN focus_next_panel
    ELSE IF key.code \in {"j", "Down"}
         THEN IF focused_panel = "Sidebar" THEN select_next_request
              ELSE IF focused_panel = "Response"
                   THEN \E max \in ResponseLineCounts : scroll_response(1, max)
              ELSE UNCHANGED appState
    ELSE IF key.code \in {"k", "Up"}
         THEN IF focused_panel = "Sidebar" THEN select_prev_request
              ELSE IF focused_panel = "Response"
                   THEN scroll_response(0 - 1, UsizeMax)
              ELSE UNCHANGED appState
    ELSE IF key.code \in {"PageDown", "d"} /\ ctrl
         THEN IF focused_panel = "Response"
              THEN \E max \in ResponseLineCounts : scroll_response(10, max)
              ELSE UNCHANGED appState
    ELSE IF key.code \in {"PageUp", "u"} /\ ctrl
         THEN IF focused_panel = "Response"
              THEN scroll_response(0 - 10, UsizeMax)
              ELSE UNCHANGED appState
    ELSE IF key.code = "g"
         THEN IF focused_panel = "Response" THEN response_scroll_top
              ELSE UNCHANGED appState
    ELSE IF key.code = "G"
         THEN IF focused_panel = "Response"
              THEN \E max \in ResponseLineCounts : response_scroll_bottom(max)
              ELSE UNCHANGED appState
    ELSE IF key.code = "n"
         THEN IF focused_panel = "Sidebar" THEN add_request(DefaultRequest)
              ELSE UNCHANGED appState
    ELSE IF key.code = "d" /\ ~ctrl
         THEN IF focused_panel = "Sidebar" THEN delete_selected_request
              ELSE UNCHANGED appState
    ELSE UNCHANGED appState

\* the routing of a key press: the help overlay first, then input mode
RouteKey(key) ==
    IF show_help THEN HelpKey(key)
    ELSE IF input_mode THEN InputModeKey(key)
    ELSE NormalModeKey(key)

\* one pass of the loop that reads a key press; the loop ends on should_quit
KeyPress(key) ==
    /\ ~should_quit
    /\ RouteKey(key)

(***************************************************************************)
(* ui.rs, render: the one write of a frame.  render_sidebar hands          *)
(* &mut app.sidebar_state to frame.render_stateful_widget, and the List    *)
(* widget (rows one line high) moves the state's offset so that the        *)
(* selected row is inside the area it draws; an empty history is drawn     *)
(* without the list, an empty area draws nothing.                          *)
(***************************************************************************)
ListOffset(sel, offset, len, rows) ==
    LET first == Min(offset, len - 1) IN
    IF sel < first THEN sel
    ELSE IF sel >= first + rows THEN sel - rows + 1
    ELSE first

Render(rows) ==
    /\ sidebar_offset' =
          IF requests = <<>> \/ rows = 0 THEN sidebar_offset
          ELSE ListOffset(Min(selected_request, Len(requests) - 1),
                          sidebar_offset, Len(requests), rows)
    /\ UNCHANGED <<appVars, bridgeVars, help_scroll, params, headers, body,
                   data, built, cursor, kvEditVars, json_error, uiVars>>

(***************************************************************************)
(* main.rs, run: the loop.  A pass draws, takes at most one result off the *)
(* channel with try_recv, polls for an event, routes a key press, and      *)
(* breaks when should_quit is set; the `continue` statements of the        *)
(* routing go back to the draw.  loop.recvs and loop.keys count what the   *)
(* pass has taken off the channel and read from the terminal.              *)
(***************************************************************************)
LoopPcs == {"draw", "recv", "poll", "check", "done"}

\* the rows of the sidebar's list area, as the terminal's size gives them
SidebarRows == 0..MaxRows

\* terminal.draw(|frame| ui::render(frame, &app))
LoopDraw ==
    /\ loop.pc = "draw"
    /\ \E rows \in SidebarRows : Render(rows)
    /\ loop' = [pc |-> "recv", recvs |-> 0, keys |-> 0]

\* if let Ok(result) = rx.try_recv() { ... }
LoopRecv ==
    /\ loop.pc = "recv"
    /\ IF rx # <<>>
       THEN /\ RecvResult
            /\ loop' = [loop EXCEPT !.pc = "poll", !.recvs = @ + 1]
       ELSE /\ UNCHANGED appState
            /\ loop' = [loop EXCEPT !.pc = "poll"]

\* a loop that reads key presses for as long as there are any
LoopKeyAgain(key) ==
    /\ loop.pc = "poll"
    /\ RouteKey(key)
    /\ loop' = [loop EXCEPT !.keys = @ + 1]

\* event::poll found an event, event::read gave a key press: it is routed;
\* the help and input-mode branches end in `continue`
LoopKey(key) ==
    /\ loop.pc = "poll"
    /\ RouteKey(key)
    /\ loop' = [loop EXCEPT !.keys = @ + 1,
                            !.pc = IF show_help \/ input_mode THEN "draw"
                                   ELSE "check"]

\* a key event that is not a press: if key.kind != KeyEventKind::Press
\* { continue; }
LoopKeyNotPress ==
    /\ loop.pc = "poll"
    /\ UNCHANGED appState
    /\ loop' = [loop EXCEPT !.keys = @ + 1, !.pc = "draw"]

\* event::poll timed out after 50 ms, or the event read is not a key event
LoopNoKey ==
    /\ loop.pc = "poll"
    /\ UNCHANGED appState
    /\ loop' = [loop EXCEPT !.pc = "check"]

\* a loop that goes on whatever should_quit holds
LoopCheckQuitNever ==
    /\ loop.pc = "check"
    /\ UNCHANGED appState
    /\ loop' = [loop EXCEPT !.pc = "draw"]

\* if app.should_quit { break; }
LoopCheckQuit ==
    /\ loop.pc = "check"
    /\ UNCHANGED appState
    /\ loop' = [loop EXCEPT !.pc = IF should_quit THEN "done" ELSE "draw"]

\* a dispatch task runs on the runtime's threads while the loop runs; run
\* returns after the break and drops the runtime with its tasks
LoopTaskStep ==
    /\ loop.pc # "done"
    /\ TaskStep
    /\ UNCHANGED loop


(***************************************************************************)
(* The application: every operation on the request state, the history list *)
(* and the dispatch bridge, new_request included.  The method stays as     *)
(* new_request and load_selected_request leave it, and the sidebar's       *)
(* selection as add, new, delete and load leave it.                        *)
(***************************************************************************)
Next ==
    \/ \E u \in UrlInputs : EditUrl(u) /\ UNCHANGED loop
    \/ SendRequest /\ UNCHANGED loop
    \/ TaskStep /\ UNCHANGED loop
    \/ RecvResult /\ UNCHANGED loop
    \/ add_request(DefaultRequest) /\ UNCHANGED loop
    \/ new_request /\ UNCHANGED loop
    \/ delete_selected_request /\ UNCHANGED loop
    \/ load_selected_request /\ UNCHANGED loop

Spec == Init /\ [][Next]_vars

(***************************************************************************)
(* The event loop of main.rs: the operations its key routing reaches.      *)
(* Key 'n' calls add_request; no key calls new_request.                    *)
(***************************************************************************)
RunNext ==
    \/ \E u \in UrlInputs : EditUrl(u) /\ UNCHANGED loop
    \/ cycle_method_next /\ UNCHANGED loop
    \/ cycle_method_prev /\ UNCHANGED loop
    \/ SendRequest /\ UNCHANGED loop
    \/ TaskStep /\ UNCHANGED loop
    \/ RecvResult /\ UNCHANGED loop
    \/ select_next_request /\ UNCHANGED loop
    \/ select_prev_request /\ UNCHANGED loop
    \/ add_request(DefaultRequest) /\ UNCHANGED loop
    \/ delete_selected_request /\ UNCHANGED loop
    \/ load_selected_request /\ UNCHANGED loop
    \/ response_scroll_up /\ UNCHANGED loop
    \/ response_scroll_down /\ UNCHANGED loop

RunSpec == Init /\ [][RunNext]_vars

(***************************************************************************)
(* The request lifecycle under the scheduling the code has: the runtime    *)
(* polls every spawned task, whose two awaits end within the client's      *)
(* timeout (http/mod.rs, build_client), and every iteration of the event   *)
(* loop calls rx.try_recv().                                               *)
(***************************************************************************)
LiveNext ==
    \/ \E u \in UrlInputs : EditUrl(u) /\ UNCHANGED loop
    \/ SendRequest /\ UNCHANGED loop
    \/ TaskStep /\ UNCHANGED loop
    \/ RecvResult /\ UNCHANGED loop
    \/ new_request /\ UNCHANGED loop

LiveSpec ==
    /\ Init
    /\ [][LiveNext]_vars
    /\ \A id \in 1..MaxSends : WF_vars(TaskStepOf(id) /\ UNCHANGED loop)
    /\ WF_vars(RecvResult /\ UNCHANGED loop)

(***************************************************************************)
(* The scroll operations of the response panel and of the help overlay,    *)
(* called with every line count and bound of ScrollLines and ScrollBounds. *)
(***************************************************************************)
ScrollNext ==
    \/ response_scroll_up /\ UNCHANGED loop
    \/ response_scroll_down /\ UNCHANGED loop
    \/ response_scroll_top /\ UNCHANGED loop
    \/ \E max \in ScrollBounds : response_scroll_bottom(max) /\ UNCHANGED loop
    \/ \E lines \in ScrollLines : help_scroll_up(lines) /\ UNCHANGED loop
    \/ \E lines \in ScrollLines : \E max \in ScrollBounds :
          help_scroll_down(lines, max) /\ UNCHANGED loop
    \/ help_scroll_top /\ UNCHANGED loop

ScrollSpec == Init /\ [][ScrollNext]_vars

(***************************************************************************)
(* The dispatch task's request: send_request is called with a RequestData  *)
(* and execute_request builds the request it sends.                        *)
(***************************************************************************)
BuildNext ==
    \/ \E url \in BaseUrls : ReceiveData(url) /\ UNCHANGED loop
    \/ BuildRequest /\ UNCHANGED loop

BuildSpec == BuildInit /\ [][BuildNext]_vars

(***************************************************************************)
(* The URL field in input mode: the field is empty or holds "hello world", *)
(* the cursor is at its end, and the keys of input mode are pressed.       *)
(***************************************************************************)
TextInit ==
    /\ request_state = Idle
    /\ response_scroll = 0
    /\ url_input \in {<<>>, HelloWorld}
    /\ cursor = Len(url_input)
    /\ method = "Get"
    /\ requests = <<>>
    /\ sidebar_state = None
    /\ editing_request_idx = None
    /\ tasks = {}
    /\ rx = <<>>
    /\ next_id = 0
    /\ applied = <<>>
    /\ help_scroll = 0
    /\ params = <<>>
    /\ headers = <<>>
    /\ body = <<>>
    /\ data = NoData
    /\ built = NotBuilt
    /\ params_editor = DefaultKvEditor
    /\ headers_editor = DefaultKvEditor
    /\ active_tab = "Params"
    /\ edit_focus = "None"
    /\ json_error = "None"
    /\ focused_panel = "Sidebar"
    /\ show_help = FALSE
    /\ should_quit = FALSE
    /\ loop = LoopStart
    /\ sidebar_offset = 0

TextNext ==
    \/ \E c \in TypedChars : input_char(c) /\ UNCHANGED loop
    \/ delete_char /\ UNCHANGED loop
    \/ delete_char_forward /\ UNCHANGED loop
    \/ move_cursor_left /\ UNCHANGED loop
    \/ move_cursor_right /\ UNCHANGED loop
    \/ move_cursor_start /\ UNCHANGED loop
    \/ move_cursor_end /\ UNCHANGED loop
    \/ move_cursor_word_left /\ UNCHANGED loop
    \/ move_cursor_word_right /\ UNCHANGED loop
    \/ delete_to_start /\ UNCHANGED loop
    \/ delete_to_end /\ UNCHANGED loop
    \/ delete_word_backward /\ UNCHANGED loop
    \/ clear_input /\ UNCHANGED loop

TextSpec == TextInit /\ [][TextNext]_vars

(***************************************************************************)
(* The collection editors: every operation of app.rs on the params and     *)
(* headers lists and on their editors, with the two operations that        *)
(* replace the lists (new_request, load_selected_request) and requests     *)
(* stored with entries to load.                                            *)
(***************************************************************************)
KvEntry(k) == [enabled |-> TRUE, key |-> <<k>>, value |-> <<>>]

StoredRequests ==
    {[method |-> "Post", url |-> <<>>,
      params |-> <<KvEntry("a")>>, headers |-> <<KvEntry("a"), KvEntry("b")>>,
      body |-> <<>>]}

KvNext ==
    \/ kv_add /\ UNCHANGED loop
    \/ kv_delete /\ UNCHANGED loop
    \/ kv_toggle_enabled /\ UNCHANGED loop
    \/ kv_select_next /\ UNCHANGED loop
    \/ kv_select_prev /\ UNCHANGED loop
    \/ kv_toggle_field /\ UNCHANGED loop
    \/ \E focus \in EditFocuses : start_editing(focus) /\ UNCHANGED loop
    \/ stop_editing /\ UNCHANGED loop
    \/ \E tab \in RequestTabs : SelectTab(tab) /\ UNCHANGED loop
    \/ new_request /\ UNCHANGED loop
    \/ load_selected_request /\ UNCHANGED loop
    \/ \E request \in StoredRequests : add_request(request) /\ UNCHANGED loop

KvSpec == Init /\ [][KvNext]_vars

(***************************************************************************)
(* Editing the entries: the collection operations with the keys typed into *)
(* the key and value inputs and into the body while they are edited.       *)
(***************************************************************************)
KvEditNext ==
    \/ kv_add /\ UNCHANGED loop
    \/ kv_delete /\ UNCHANGED loop
    \/ kv_select_next /\ UNCHANGED loop
    \/ kv_select_prev /\ UNCHANGED loop
    \/ kv_toggle_field /\ UNCHANGED loop
    \/ \E focus \in EditFocuses : start_editing(focus) /\ UNCHANGED loop
    \/ stop_editing /\ UNCHANGED loop
    \/ \E c \in KvTypedChars : kv_input_char(c) /\ UNCHANGED loop
    \/ \E tab \in RequestTabs : SelectTab(tab) /\ UNCHANGED loop

KvEditSpec == Init /\ [][KvEditNext]_vars

(***************************************************************************)
(* Entering and leaving the edit focus: start_editing and stop_editing     *)
(* with the keys typed in between, into the inputs of an entry or into the *)
(* body.                                                                   *)
(***************************************************************************)
FocusNext ==
    \/ \E focus \in EditFocuses : start_editing(focus) /\ UNCHANGED loop
    \/ stop_editing /\ UNCHANGED loop
    \/ \E c \in KvTypedChars : kv_input_char(c) /\ UNCHANGED loop
    \/ \E text \in BodyTexts : EditBody(text) /\ UNCHANGED loop
    \/ kv_add /\ UNCHANGED loop
    \/ kv_toggle_field /\ UNCHANGED loop
    \/ \E tab \in RequestTabs : SelectTab(tab) /\ UNCHANGED loop

FocusSpec == Init /\ [][FocusNext]_vars

(***************************************************************************)
(* The body and its JSON check: the body typed while it is edited, loaded  *)
(* from a stored request or cleared, then validated or formatted.          *)
(***************************************************************************)
JsonTexts ==
    {<<>>, <<" ">>, <<"\n">>, <<"{", " ", "}">>, <<"[", "1", "]">>,
     <<"1", "1">>, <<"{", "a">>, <<"a">>, <<"[", "1">>}

JsonRequests ==
    {[DefaultRequest EXCEPT !.body = <<"[", "[", "]", "]">>],
     [DefaultRequest EXCEPT !.body = <<"a", "\n">>]}

JsonNext ==
    \/ \E focus \in {"None", "Body"} : start_editing(focus) /\ UNCHANGED loop
    \/ stop_editing /\ UNCHANGED loop
    \/ \E text \in JsonTexts : EditBody(text) /\ UNCHANGED loop
    \/ format_json /\ UNCHANGED loop
    \/ \E request \in JsonRequests : add_request(request) /\ UNCHANGED loop
    \/ select_next_request /\ UNCHANGED loop
    \/ load_selected_request /\ UNCHANGED loop
    \/ new_request /\ UNCHANGED loop

JsonSpec == Init /\ [][JsonNext]_vars

(***************************************************************************)
(* The history list and the working copy: the sidebar's operations, with   *)
(* blank and stored requests added and written over entries, and every     *)
(* operation that edits the working copy (URL, method, body, the entries   *)
(* of the active collection).  The collection of the tab that is active    *)
(* from the start is the one edited.                                       *)
(***************************************************************************)
HistoryInit ==
    /\ request_state = Idle
    /\ response_scroll = 0
    /\ url_input = <<>>
    /\ method = "Get"
    /\ requests = <<>>
    /\ sidebar_state = None
    /\ editing_request_idx = None
    /\ tasks = {}
    /\ rx = <<>>
    /\ next_id = 0
    /\ applied = <<>>
    /\ help_scroll = 0
    /\ params = <<>>
    /\ headers = <<>>
    /\ body = <<>>
    /\ data = NoData
    /\ built = NotBuilt
    /\ cursor = 0
    /\ params_editor = DefaultKvEditor
    /\ headers_editor = DefaultKvEditor
    /\ active_tab \in {"Params", "Headers"}
    /\ edit_focus = "None"
    /\ json_error = "None"
    /\ focused_panel = "Sidebar"
    /\ show_help = FALSE
    /\ should_quit = FALSE
    /\ loop = LoopStart
    /\ sidebar_offset = 0

HistoryRequests == {DefaultRequest} \cup StoredRequests

HistoryNext ==
    \/ select_next_request /\ UNCHANGED loop
    \/ select_prev_request /\ UNCHANGED loop
    \/ \E request \in HistoryRequests : add_request(request) /\ UNCHANGED loop
    \/ new_request /\ UNCHANGED loop
    \/ \E idx \in 0..MaxRequests : \E request \in HistoryRequests :
          update_request(idx, request) /\ UNCHANGED loop
    \/ delete_selected_request /\ UNCHANGED loop
    \/ load_selected_request /\ UNCHANGED loop
    \/ EditUrl(UrlExample) /\ UNCHANGED loop
    \/ cycle_method_next /\ UNCHANGED loop
    \/ cycle_method_prev /\ UNCHANGED loop
    \/ EditBody(<<"a">>) /\ UNCHANGED loop
    \/ kv_add /\ UNCHANGED loop
    \/ kv_delete /\ UNCHANGED loop
    \/ kv_toggle_enabled /\ UNCHANGED loop
    \/ kv_select_next /\ UNCHANGED loop
    \/ kv_select_prev /\ UNCHANGED loop
    \/ kv_toggle_field /\ UNCHANGED loop
    \/ \E focus \in {"KeyValue", "Body"} : start_editing(focus)
          /\ UNCHANGED loop
    \/ stop_editing /\ UNCHANGED loop

HistorySpec == HistoryInit /\ [][HistoryNext]_vars

(***************************************************************************)
(* Loading from the history: requests stored with every kind of body, one  *)
(* ending in a line break (Request.body is a String, request.rs:120), and  *)
(* the operations that leave the working copy and the editors different    *)
(* from what a load puts there.                                            *)
(***************************************************************************)
LoadRequests ==
    HistoryRequests
        \cup {[method |-> "Put", url |-> UrlExample, params |-> <<>>,
               headers |-> <<KvEntry("a")>>, body |-> <<"1", "\n">>]}

LoadNext ==
    \/ select_next_request /\ UNCHANGED loop
    \/ select_prev_request /\ UNCHANGED loop
    \/ \E request \in LoadRequests : add_request(request) /\ UNCHANGED loop
    \/ new_request /\ UNCHANGED loop
    \/ delete_selected_request /\ UNCHANGED loop
    \/ load_selected_request /\ UNCHANGED loop
    \/ cycle_method_next /\ UNCHANGED loop
    \/ kv_add /\ UNCHANGED loop
    \/ kv_select_next /\ UNCHANGED loop
    \/ kv_toggle_field /\ UNCHANGED loop
    \/ \E tab \in RequestTabs : SelectTab(tab) /\ UNCHANGED loop

LoadSpec == Init /\ [][LoadNext]_vars

(***************************************************************************)
(* Panel focus: the panel operations of app.rs among the operations that   *)
(* leave the focused panel alone.                                          *)
(***************************************************************************)
FocusPanelNext ==
    \/ focus_next_panel /\ UNCHANGED loop
    \/ focus_prev_panel /\ UNCHANGED loop
    \/ toggle_help /\ UNCHANGED loop
    \/ add_request(DefaultRequest) /\ UNCHANGED loop
    \/ select_next_request /\ UNCHANGED loop
    \/ cycle_method_next /\ UNCHANGED loop

PanelSpec == Init /\ [][FocusPanelNext]_vars

(***************************************************************************)
(* The keyboard: every step is one key press routed by main.rs.            *)
(***************************************************************************)
Keys ==
    {Key(code, FALSE, FALSE) :
        code \in {"Esc", "Tab", "BackTab", "Left", "Right", "Up", "Down",
                  "Enter", "Backspace", "h", "j", "k", "l", "n", "d", "?",
                  "q"}}
        \cup {Key("s", TRUE, FALSE), Key("Left", TRUE, FALSE),
              Key("u", TRUE, FALSE), Key("c", TRUE, FALSE)}

KeyNext == \E key \in Keys : KeyPress(key) /\ UNCHANGED loop

KeySpec == Init /\ [][KeyNext]_vars

(***************************************************************************)
(* The event loop of run, with the dispatch tasks beside it.               *)
(***************************************************************************)
LoopKeys ==
    {Key(code, FALSE, FALSE) :
        code \in {"Esc", "Enter", "j", "n", "q"}}
        \cup {Key("s", TRUE, FALSE)}

LoopNext ==
    \/ LoopDraw
    \/ LoopRecv
    \/ \E key \in LoopKeys : LoopKey(key)
    \/ LoopKeyNotPress
    \/ LoopNoKey
    \/ LoopCheckQuit
    \/ LoopTaskStep

LoopSpec == Init /\ [][LoopNext]_vars

(***************************************************************************)
(* What the claims speak of, said without the operators of the model.      *)
(***************************************************************************)
IsBlank(s) == \A i \in 1..Len(s) : s[i] = " "

\* s without its leading and trailing spaces
Stripped(s) ==
    IF IsBlank(s) THEN <<>>
    ELSE LET first == CHOOSE i \in 1..Len(s) :
                         s[i] # " " /\ \A j \in 1..(i - 1) : s[j] = " "
             last == CHOOSE i \in 1..Len(s) :
                         s[i] # " " /\ \A j \in (i + 1)..Len(s) : s[j] = " "
         IN SubSeq(s, first, last)

HasScheme(u) ==
    \/ Len(u) >= 7 /\ SubSeq(u, 1, 7) = <<"h", "t", "t", "p", ":", "/", "/">>
    \/ Len(u) >= 8 /\ SubSeq(u, 1, 8) = <<"h", "t", "t", "p", "s", ":", "/", "/">>

Last(q) == q[Len(q)]

\* the network calls dispatched and not yet reconciled
InFlight == Cardinality(tasks) + Len(rx)

\* the HttpResults sent so far for dispatch id: those in the channel and
\* those the event loop has taken out of it
Pushes(id) ==
    Cardinality({k \in 1..Len(rx) : rx[k].id = id})
      + Cardinality({k \in 1..Len(applied) : applied[k].id = id})

\* a step that issues a dispatch, and a step that takes a result
Dispatches == next_id' = next_id + 1
Reconciles == rx # <<>> /\ Len(rx') < Len(rx)

(***************************************************************************)
(* C1: at most one request is in flight: in every reachable state the      *)
(* dispatched and not yet reconciled network calls number at most one.     *)
(* (Its second half, that a send while Loading changes nothing, is         *)
(* SendWhileLoadingIsNoOp.)                                                *)
(***************************************************************************)
AtMostOneInFlight == InFlight <= 1

SendWhileLoadingIsNoOp == [][(SendRequest /\ is_loading) => UNCHANGED vars]_vars

(***************************************************************************)
(* C2: the result queue never holds more than one unreconciled HttpResult, *)
(* and the k-th reconciled result belongs to the k-th dispatched request.  *)
(***************************************************************************)
QueueAtMostOneAndFifo ==
    /\ Len(rx) <= 1
    /\ \A k \in 1..Len(applied) : applied[k].id = k

(***************************************************************************)
(* C3: every dispatch sends exactly one HttpResult on the channel,         *)
(* whichever way execute_request ends: none while its task runs, one once  *)
(* the task has ended, never two.                                          *)
(***************************************************************************)
ExactlyOneResult ==
    \A id \in 1..next_id :
        Pushes(id) = IF \E t \in tasks : t.id = id THEN 0 ELSE 1

\* two dispatches have ended, one by a body-read failure and one by a
\* failure of the send; both results are accounted for
ExactlyOneResultWitness ==
    /\ next_id = 2
    /\ tasks = {}
    /\ Len(applied) = 1
    /\ Len(rx) = 1
    /\ rx[1].msg = "Failed to read response body"
    /\ request_state.msg = "Request timed out"

(***************************************************************************)
(* C4: under fair scheduling of the dispatch tasks and of the event loop,  *)
(* every state in which RequestState is Loading is followed by one in      *)
(* which it is Success or Error.                                           *)
(***************************************************************************)
LoadingResolves ==
    (request_state.tag = "Loading") ~>
        (request_state.tag \in {"Success", "Error"})

\* a send has been answered by the transport's timeout
LoadingResolvesWitness ==
    /\ request_state.tag = "Error"
    /\ request_state.msg = "Request timed out"
    /\ Len(applied) = 1

FailureMessage(e) ==
    CASE e.timeout -> "Request timed out"
      [] ~e.timeout /\ e.connect -> "Connection failed"
      [] ~e.timeout /\ ~e.connect /\ e.request -> "Invalid request"
      [] OTHER -> "Request failed"

FailuresBecomeError ==
    [][/\ \A t \in tasks : \A e \in TransportErrors :
            TaskSendFails(t, e) =>
                rx' = rx \o <<[tag |-> "Error", id |-> t.id, status |-> 0,
                               status_text |-> "", msg |-> FailureMessage(e)]>>
       /\ \A t \in tasks :
            TaskTextFails(t) =>
                rx' = rx \o <<[tag |-> "Error", id |-> t.id, status |-> 0,
                               status_text |-> "",
                               msg |-> "Failed to read response body"]>>
       /\ rx' # rx =>
            \/ rx # <<>> /\ rx' = Tail(rx)
            \/ Len(rx') = Len(rx) + 1 /\ SubSeq(rx', 1, Len(rx)) = rx
       /\ (Reconciles /\ rx[1].tag = "Error") =>
                /\ request_state'.tag = "Error"
                /\ request_state'.msg = rx[1].msg
                /\ request_state'.msg # ""
      ]_vars

\* a body-read failure and a connection failure, each stored as Error
FailuresBecomeErrorWitness ==
    /\ request_state.tag = "Error"
    /\ request_state.msg \in {"Connection failed", "Failed to read response body"}
    /\ applied # <<>>
    /\ Last(applied).tag = "Error"

(***************************************************************************)
(* C7: a send of a non-empty URL without an http:// or https:// prefix     *)
(* dispatches "https://" followed by the trimmed URL (so for POST and      *)
(* "example.com/api"), and a response of status s, whatever s is, makes    *)
(* RequestState Success carrying s, with response_scroll = 0.              *)
(***************************************************************************)
SchemeDefaultedStatusKept ==
    [][/\ (Dispatches /\ ~HasScheme(Stripped(url_input))) =>
            \E t \in tasks' :
                /\ t.id = next_id + 1
                /\ t \notin tasks
                /\ t.method = method
                /\ t.url = <<"h", "t", "t", "p", "s", ":", "/", "/">>
                              \o Stripped(url_input)
       /\ (Dispatches /\ url_input = UrlExample) =>
            \E t \in tasks' :
                /\ t.id = next_id + 1
                /\ t.url = <<"h", "t", "t", "p", "s", ":", "/", "/",
                             "e", "x", "a", "m", "p", "l", "e", ".",
                             "c", "o", "m", "/", "a", "p", "i">>
       /\ \A t2 \in tasks' : t2.pc # "spawned" => t2.wire.url = t2.url
       /\ \A t \in tasks :
            (t.pc = "text" /\ (\A t2 \in tasks' : t2.id # t.id)
               /\ Last(rx').tag = "Success") =>
                /\ Last(rx').id = t.id
                /\ Last(rx').status = t.status
                /\ t.status = 201 => Last(rx').status_text = "Created"
       /\ (Reconciles /\ rx[1].tag = "Success") =>
            /\ request_state'.tag = "Success"
            /\ request_state'.status = rx[1].status
            /\ request_state'.status_text = rx[1].status_text
            /\ response_scroll' = 0
      ]_vars

\* POST example.com/api was sent and answered 201 Created
SchemeDefaultedStatusKeptWitness ==
    /\ request_state.tag = "Success"
    /\ request_state.status = 201
    /\ request_state.status_text = "Created"
    /\ response_scroll = 0
    /\ method = "Post"
    /\ url_input = UrlExample
    /\ next_id = 1
    /\ Len(applied) = 1

(***************************************************************************)
(* C8: a send whose trimmed URL is empty is rejected at once: it issues no *)
(* dispatch, so that nothing reaches the result queue for it, and it does  *)
(* not make RequestState Loading.                                          *)
(***************************************************************************)
EmptyUrlSendRejected ==
    [][/\ Dispatches => ~IsBlank(url_input)
       /\ (SendRequest /\ IsBlank(url_input)) =>
            /\ tasks' = tasks
            /\ rx' = rx
            /\ next_id' = next_id
            /\ request_state'.tag = "Loading" => request_state.tag = "Loading"
      ]_vars

\* a send of a blank URL was rejected and nothing was ever dispatched
EmptyUrlSendRejectedWitness ==
    /\ request_state.tag = "Error"
    /\ request_state.msg = "URL is empty"
    /\ url_input = UrlBlank
    /\ next_id = 0
    /\ tasks = {}
    /\ rx = <<>>

(***************************************************************************)
(* C9: a send rejected for an empty URL leaves RequestState unaltered: a   *)
(* Success response held before the rejected send is still held after it,  *)
(* and response_scroll is unchanged.                                       *)
(***************************************************************************)
RejectedSendKeepsSuccess ==
    [][(SendRequest /\ IsBlank(url_input) /\ request_state.tag = "Success") =>
            /\ request_state' = request_state
            /\ response_scroll' = response_scroll
      ]_vars

(***************************************************************************)
(* C9, amended: a send rejected for an empty URL is surfaced through       *)
(* RequestState: unless a request is Loading, RequestState becomes         *)
(* Error("URL is empty") and response_scroll 0, so that a Success response *)
(* held before is replaced; nothing else changes.                          *)
(***************************************************************************)
RejectedSendSetsError ==
    [][(SendRequest /\ IsBlank(url_input) /\ request_state.tag # "Loading") =>
            /\ request_state'.tag = "Error"
            /\ request_state'.msg = "URL is empty"
            /\ response_scroll' = 0
            /\ UNCHANGED <<url_input, method, requests, sidebar_state,
                           editing_request_idx, tasks, rx, next_id, applied>>
      ]_vars

\* the last result reconciled was a Success, and a send of a blank URL has
\* replaced it since
RejectedSendSetsErrorWitness ==
    /\ request_state.tag = "Error"
    /\ request_state.msg = "URL is empty"
    /\ response_scroll = 0
    /\ IsBlank(url_input)
    /\ applied # <<>>
    /\ Last(applied).tag = "Success"
    /\ Len(applied) = next_id
    /\ tasks = {}
    /\ rx = <<>>

ResultAppliedOnlyWhenLoading ==
    [][/\ Reconciles => request_state.tag = "Loading"
       /\ (request_state'.tag = "Success" /\ request_state' # request_state) =>
            request_state.tag = "Loading"
      ]_vars

(***************************************************************************)
(* C12: set_loading, set_response and set_error each leave response_scroll *)
(* 0: after every step that takes RequestState into Loading, Success or    *)
(* Error the scroll offset is 0, whatever it was before.                   *)
(***************************************************************************)
TransitionsResetScroll ==
    [][/\ (SendRequest /\ ~is_loading) => response_scroll' = 0
       /\ Reconciles => response_scroll' = 0
       /\ (request_state' # request_state
             /\ request_state'.tag \in {"Loading", "Success", "Error"}) =>
            response_scroll' = 0
      ]_vars

\* a second send has entered Loading after the first one's response was shown
TransitionsResetScrollWitness ==
    /\ request_state.tag = "Loading"
    /\ response_scroll = 0
    /\ next_id = 2
    /\ Len(applied) = 1
    /\ applied[1].tag = "Success"

(***************************************************************************)
(* C13: for every current offset, delta and bound, scroll-by-lines yields  *)
(* an offset in [0, max(bound-1, 0)]: scrolling down never passes bound-1  *)
(* (and yields 0 when the bound is 0), scrolling up saturates at 0.        *)
(***************************************************************************)
UpperOffset(bound) == IF bound >= 1 THEN bound - 1 ELSE 0

ScrollDeltas == (0 - MaxLines)..MaxLines

ScrollAlwaysInBound ==
    \A pos \in {help_scroll, response_scroll} :
        \A delta \in ScrollDeltas : \A max \in ScrollBounds :
            ScrollBy(pos, delta, max) \in 0..UpperOffset(max)

(***************************************************************************)
(* C13, amended: scroll-by-lines never yields a negative offset.           *)
(* Scrolling up by n yields offset - n, or 0 when n exceeds the offset.    *)
(* Scrolling down by n under a bound >= 1 yields the smaller of offset + n *)
(* and bound - 1, so an offset in [0, bound-1]; under bound 0 it leaves    *)
(* the offset as it was.  The result is in [0, max(bound-1, 0)] whenever   *)
(* the offset before the call was.                                         *)
(***************************************************************************)
ScrollClampsUnderPositiveBound ==
    \A pos \in {help_scroll, response_scroll} :
        \A delta \in ScrollDeltas : \A max \in ScrollBounds :
            LET out == ScrollBy(pos, delta, max) IN
            /\ out >= 0
            /\ delta < 0 =>
                /\ pos + delta >= 0 => out = pos + delta
                /\ pos + delta < 0 => out = 0
            /\ (delta >= 0 /\ max >= 1) =>
                /\ out \in 0..(max - 1)
                /\ pos + delta <= max - 1 => out = pos + delta
                /\ pos + delta > max - 1 => out = max - 1
            /\ (delta >= 0 /\ max = 0) => out = pos
            /\ pos <= UpperOffset(max) => out <= UpperOffset(max)

\* the help overlay scrolled to its last line and the response panel scrolled
ScrollClampsUnderPositiveBoundWitness ==
    /\ help_scroll = HELP_TOTAL_LINES - 1
    /\ response_scroll = 1

(***************************************************************************)
(* C14: the outgoing URL is the base URL followed by the enabled,          *)
(* non-empty-key query parameters in list order, as percent-encoded        *)
(* key=value pairs joined with "&", introduced by "?" when the base URL    *)
(* holds no "?" and by "&" when it does; with no such parameter it is the  *)
(* base URL.  https://x/y with [(a,1),(b,2)] gives https://x/y?a=1&b=2,    *)
(* and https://x/y?z=1 gives https://x/y?z=1&a=1&b=2.                      *)
(***************************************************************************)
Sent(items) == SelectSeq(items, LAMBDA p : p.enabled /\ Len(p.key) > 0)

Occurrences(s, c) == Cardinality({i \in 1..Len(s) : s[i] = c})

KV(k, v) == [enabled |-> TRUE, key |-> k, value |-> v]

UrlXY == <<"h", "t", "t", "p", "s", ":", "/", "/", "x", "/", "y">>
UrlXYZ == <<"h", "t", "t", "p", "s", ":", "/", "/", "x", "/", "y", "?", "z", "=", "1">>

OutgoingUrlHasQuery ==
    built.done =>
        LET base == data.url
            url == built.url
            sent == Sent(data.params)
            rest == SubSeq(url, Len(base) + 2, Len(url))
        IN /\ sent = <<>> => url = base
           /\ sent # <<>> =>
                /\ Len(url) > Len(base) + 1
                /\ SubSeq(url, 1, Len(base)) = base
                /\ url[Len(base) + 1] =
                      IF \E i \in 1..Len(base) : base[i] = "?" THEN "&" ELSE "?"
                /\ Occurrences(rest, "&") = Len(sent) - 1
                /\ Occurrences(rest, "=") = Len(sent)
                /\ Occurrences(rest, " ") = 0
                /\ Occurrences(rest, "?") = 0
                /\ SubSeq(rest, 1, Len(sent[1].key)) = sent[1].key
                      \/ Occurrences(sent[1].key, " ") > 0
           /\ (base = UrlXY /\ data.params = <<KV(<<"a">>, <<"1">>), KV(<<"b">>, <<"2">>)>>)
                => url = <<"h", "t", "t", "p", "s", ":", "/", "/", "x", "/", "y", "?", "a", "=", "1", "&", "b", "=", "2">>
           /\ (base = UrlXYZ /\ data.params = <<KV(<<"a">>, <<"1">>), KV(<<"b">>, <<"2">>)>>)
                => url = <<"h", "t", "t", "p", "s", ":", "/", "/", "x", "/", "y", "?", "z", "=", "1", "&", "a", "=", "1", "&", "b", "=", "2">>
           /\ (base = UrlXY /\ data.params = <<KV(<<"b">>, <<"2">>), KV(<<"a">>, <<"1">>)>>)
                => url = <<"h", "t", "t", "p", "s", ":", "/", "/", "x", "/", "y", "?", "b", "=", "2", "&", "a", "=", "1">>
           /\ (base = UrlXY /\ data.params = <<KV(<<"a", " ", "b">>, <<"x", "&", "y", "=", "?">>)>>)
                => url = <<"h", "t", "t", "p", "s", ":", "/", "/", "x", "/", "y", "?", "a", "%", "2", "0", "b", "=", "x", "%", "2", "6", "y", "%", "3", "D", "%", "3", "F">>

\* the second example of the claim has been built
OutgoingUrlHasQueryWitness ==
    /\ built.done
    /\ data.url = UrlXYZ
    /\ Len(data.params) = 2
    /\ built.url = <<"h", "t", "t", "p", "s", ":", "/", "/", "x", "/", "y", "?", "z", "=", "1", "&", "a", "=", "1", "&", "b", "=", "2">>

(***************************************************************************)
(* C15: when the body is not empty and no explicit Content-Type header is  *)
(* present, exactly one Content-Type header is added to the outgoing       *)
(* request: application/json if the trimmed body starts with "{" or "[",   *)
(* text/plain otherwise; when the body is empty or an explicit             *)
(* Content-Type header is present, none is inferred.  (A header is present *)
(* when it is enabled; the name is compared without regard to case.)       *)
(***************************************************************************)
ExplicitContentType(hs) ==
    \E i \in 1..Len(hs) :
        /\ hs[i].enabled
        /\ hs[i].key \in {<<"C", "o", "n", "t", "e", "n", "t", "-", "T", "y", "p", "e">>,
                          <<"c", "o", "n", "t", "e", "n", "t", "-", "t", "y", "p", "e">>}

LooksLikeJson(b) ==
    \E i \in 1..Len(b) :
        /\ b[i] \in {"{", "["}
        /\ \A j \in 1..(i - 1) : b[j] = " "

ContentTypeInferred ==
    built.done =>
        LET given == Sent(data.headers)
            added == SubSeq(built.headers, Len(given) + 1, Len(built.headers))
        IN IF Len(data.body) > 0 /\ ~ExplicitContentType(data.headers)
           THEN /\ Len(added) = 1
                /\ added[1].key = <<"C", "o", "n", "t", "e", "n", "t", "-", "T", "y", "p", "e">>
                /\ added[1].value =
                      IF LooksLikeJson(data.body)
                      THEN <<"a", "p", "p", "l", "i", "c", "a", "t", "i", "o", "n", "/", "j", "s", "o", "n">>
                      ELSE <<"t", "e", "x", "t", "/", "p", "l", "a", "i", "n">>
           ELSE added = <<>>

\* a body " {a}" sent with a disabled content-type header and a custom one:
\* application/json is inferred
ContentTypeInferredWitness ==
    /\ built.done
    /\ data.body = <<" ", "{", "a", "}">>
    /\ Len(data.headers) = 2
    /\ ~data.headers[1].enabled
    /\ Len(built.headers) = 2
    /\ built.headers[2].value = <<"a", "p", "p", "l", "i", "c", "a", "t", "i", "o", "n", "/", "j", "s", "o", "n">>

(***************************************************************************)
(* C16: only the entries that are enabled and have a non-empty key are     *)
(* applied to the outgoing request, as headers and as query parameters, in *)
(* list order; disabled entries are left out, and sending removes or       *)
(* changes no entry of the params and headers lists the application holds. *)
(***************************************************************************)
OnlyEnabledEntriesSent ==
    [][(data' # NoData /\ (data = NoData \/ (built'.done /\ ~built.done))) =>
          /\ params' = params
          /\ headers' = headers
          /\ data'.params = params
          /\ data'.headers = headers
          /\ data # NoData => data' = data
          /\ built'.done =>
               LET given == Sent(headers)
                   asked == Sent(params)
                   url == built'.url
                   query == SubSeq(url, Len(data.url) + 1, Len(url))
               IN /\ Len(built'.headers) >= Len(given)
                  /\ \A i \in 1..Len(given) :
                        /\ built'.headers[i].key = given[i].key
                        /\ built'.headers[i].value = given[i].value
                  /\ Occurrences(query, "=") = Len(asked)
                  /\ \A i \in 1..Len(params) :
                        (~params[i].enabled /\ params[i].key = <<"c">>) =>
                            Occurrences(query, "c") = 0
                  /\ (data.url = UrlXY /\ Len(params) = 2
                        /\ ~params[1].enabled /\ params[2] = KV(<<"b">>, <<"2">>))
                        => url = <<"h", "t", "t", "p", "s", ":", "/", "/", "x", "/", "y", "?", "b", "=", "2">>
      ]_vars

\* a request built from lists that hold a disabled parameter and a header
\* without a key; only the other entries were sent
OnlyEnabledEntriesSentWitness ==
    /\ built.done
    /\ Len(params) = 2
    /\ ~params[1].enabled
    /\ params[2] = KV(<<"b">>, <<"2">>)
    /\ built.url = <<"h", "t", "t", "p", "s", ":", "/", "/", "x", "/", "y", "?", "z", "=", "1", "&", "b", "=", "2">>
    /\ Len(headers) = 2
    /\ headers[1].key = <<>>
    /\ headers[2].key = <<"X", "-", "A">>
    /\ built.headers = <<[key |-> <<"X", "-", "A">>, value |-> <<"1">>]>>

(***************************************************************************)
(* C17: after every operation of the text field (insert, delete before and *)
(* after the cursor, move left and right, to start and end, by word,       *)
(* delete to start, to end, word backward, clear) 0 <= cursor <=           *)
(* len(content), and moving left at cursor 0 or right at cursor            *)
(* len(content) changes nothing.                                           *)
(***************************************************************************)
CursorInText ==
    [][/\ cursor' \in 0..Len(url_input')
       /\ (move_cursor_left /\ cursor = 0) => UNCHANGED vars
       /\ (move_cursor_right /\ cursor = Len(url_input)) => UNCHANGED vars
       /\ (move_cursor_word_left /\ cursor = 0) => UNCHANGED vars
       /\ (move_cursor_word_right /\ cursor = Len(url_input)) => UNCHANGED vars
      ]_vars

\* text typed into the empty field, the cursor moved back inside it
CursorInTextWitness ==
    /\ url_input = <<"a", " ", "a">>
    /\ cursor = 1

(***************************************************************************)
(* C18: delete_word_backward removes exactly the text between the backward *)
(* word boundary and the cursor and puts the cursor at that boundary; the  *)
(* boundary is found by scanning back from the cursor over a run of        *)
(* non-alphanumeric characters and then over a run of alphanumeric ones.   *)
(* "hello world" with the cursor at its end becomes "hello " with cursor   *)
(* 6, and then the empty text.                                             *)
(***************************************************************************)
LetterOrDigit(c) == c \in {"a", "d", "e", "h", "l", "o", "r", "w", "1"}

\* the end of the last word that ends at or before position i (0 if none)
WordEndBefore(s, i) ==
    CHOOSE m \in 0..i :
        /\ m = 0 \/ LetterOrDigit(s[m])
        /\ \A j \in (m + 1)..i : ~LetterOrDigit(s[j])

\* the start of the word that ends at position m
WordStartOf(s, m) ==
    CHOOSE b \in 0..m :
        /\ b = 0 \/ ~LetterOrDigit(s[b])
        /\ \A j \in (b + 1)..m : LetterOrDigit(s[j])

DeleteWordBackwardRemovesWord ==
    /\ [](cursor \in 0..Len(url_input) =>
            WordBoundaryLeft(url_input, cursor) =
                WordStartOf(url_input, WordEndBefore(url_input, cursor)))
    /\ [][(delete_word_backward /\ cursor \in 0..Len(url_input)) =>
          LET b == WordStartOf(url_input, WordEndBefore(url_input, cursor)) IN
          /\ cursor' = b
          /\ Len(url_input') = Len(url_input) - (cursor - b)
          /\ \A i \in 1..b : url_input'[i] = url_input[i]
          /\ \A i \in (b + 1)..Len(url_input') :
                url_input'[i] = url_input[i + (cursor - b)]
          /\ (url_input = <<"h", "e", "l", "l", "o", " ", "w", "o", "r", "l", "d">>
                /\ cursor = 11) =>
                (url_input' = <<"h", "e", "l", "l", "o", " ">> /\ cursor' = 6)
          /\ (url_input = <<"h", "e", "l", "l", "o", " ">> /\ cursor = 6) =>
                (url_input' = <<>> /\ cursor' = 0)
      ]_vars

\* "hello world" after one delete_word_backward from its end
DeleteWordBackwardRemovesWordWitness ==
    /\ url_input = <<"h", "e", "l", "l", "o", " ">>
    /\ cursor = 6

(***************************************************************************)
(* The collection editors.                                                 *)
(***************************************************************************)
\* the selection index of an editor: 0 when the list widget has none
SelectionIndex(editor) == IF editor.state = None THEN 0 ELSE editor.state

SelectionWithin(items, editor) ==
    IF Len(items) = 0
    THEN SelectionIndex(editor) = 0
    ELSE 0 <= SelectionIndex(editor) /\ SelectionIndex(editor) < Len(items)

\* C19: after any sequence of collection operations (add, delete-selected,
\* toggle-enabled, select-next, select-prev, toggle-sub-field, start and
\* stop editing, load-selected, new request) the selection index of each of
\* the two collection editors is at least 0 and below the length of its
\* list when the list is non-empty, and is 0 when the list is empty; so
\* delete-selected never removes at an index outside the list.
SelectionInRange ==
    /\ SelectionWithin(params, params_editor)
    /\ SelectionWithin(headers, headers_editor)

\* both lists were edited after a request was created or loaded: the params
\* list is full with its last entry selected, the headers list was emptied
\* by deleting its only entry
SelectionInRangeWitness ==
    /\ requests # <<>>
    /\ Len(params) = MaxKv
    /\ params_editor.state = MaxKv - 1
    /\ headers = <<>>
    /\ headers_editor.state = 0

\* what delete-selected is to leave of a list of n entries whose entry at
\* index sel (counted from 0) is selected
DeleteSelectedLeaves(items, sel, after, selAfter) ==
    LET n == Len(items) IN
    /\ n = 0 => after = items /\ selAfter = sel
    /\ n = 1 => after = <<>> /\ selAfter = 0
    /\ n > 1 /\ sel = n - 1 =>
           /\ Len(after) = n - 1
           /\ selAfter = n - 2
    /\ n > 0 /\ sel < n =>
           /\ Len(after) = n - 1
           /\ \A i \in 1..(n - 1) :
                  after[i] = IF i <= sel THEN items[i] ELSE items[i + 1]
    /\ n > 1 /\ sel < n - 1 => selAfter = sel

\* C20: delete-selected on a collection of N > 1 entries with the last entry
\* selected leaves N-1 entries and selection N-2; on a one-entry collection
\* it leaves the list empty and selection 0; deleting an entry that is not
\* the last removes exactly that entry and keeps the selection index; on an
\* empty collection it changes nothing.  Said of every reachable list and
\* editor, and of every delete-selected step taken.
DeleteSelectedAdjustsSelection ==
    /\ [](\A tab \in {"Params", "Headers"} :
            LET items == IF tab = "Params" THEN params ELSE headers
                editor == IF tab = "Params"
                          THEN params_editor
                          ELSE headers_editor
                left == KvDelete(items, editor)
            IN /\ DeleteSelectedLeaves(items, SelectionIndex(editor),
                                       left.items, SelectionIndex(left.editor))
               /\ Len(items) = 0 => left.editor = editor)
    /\ [][kv_delete =>
            IF active_tab = "Params"
            THEN /\ DeleteSelectedLeaves(params, SelectionIndex(params_editor),
                                         params',
                                         SelectionIndex(params_editor'))
                 /\ UNCHANGED <<headers, headers_editor>>
            ELSE /\ DeleteSelectedLeaves(headers,
                                         SelectionIndex(headers_editor),
                                         headers',
                                         SelectionIndex(headers_editor'))
                 /\ UNCHANGED <<params, params_editor>>]_vars

\* the only params entry was deleted while its editor was open, and the
\* first of two headers is selected: deleting it is the not-the-last case
DeleteSelectedAdjustsSelectionWitness ==
    /\ params = <<>>
    /\ params_editor.state = 0
    /\ Len(headers) = 2
    /\ headers_editor.state = 0
    /\ edit_focus = "KeyValue"

\* what add is to leave: the list with one blank enabled entry more at its
\* end, that entry selected, the key sub-field focused, both inputs empty
AddedBlankEntry(items, after, editorAfter) ==
    /\ Len(after) = Len(items) + 1
    /\ after[Len(after)] = [enabled |-> TRUE, key |-> <<>>, value |-> <<>>]
    /\ \A i \in 1..Len(items) : after[i] = items[i]
    /\ editorAfter.state = Len(after) - 1
    /\ editorAfter.field = "Key"
    /\ editorAfter.key_input = <<>>
    /\ editorAfter.value_input = <<>>

\* C21: collection add appends exactly one entry with enabled = true, empty
\* key and empty value at the end of the active collection, leaves the
\* existing entries unchanged and in order, selects the new last index and
\* sets the sub-field to Key with empty sub-field editors; the collection
\* that is not active is left as it was.
AddAppendsBlankEntry ==
    [][kv_add =>
         IF active_tab = "Params"
         THEN /\ AddedBlankEntry(params, params', params_editor')
              /\ UNCHANGED <<headers, headers_editor>>
         ELSE /\ AddedBlankEntry(headers, headers', headers_editor')
              /\ UNCHANGED <<params, params_editor>>]_vars

\* a blank entry was added behind the loaded entry "a" of the params list
AddAppendsBlankEntryWitness ==
    /\ active_tab = "Params"
    /\ Len(params) = 2
    /\ params[1].key = <<"a">>
    /\ params[2] = [enabled |-> TRUE, key |-> <<>>, value |-> <<>>]
    /\ params_editor.state = 1
    /\ params_editor.field = "Key"

\* navigating while an entry is edited: the entry being left (the one the
\* selection displayed before the step) holds the inputs' key and value,
\* its enabled flag and every other entry are as before, and the inputs
\* hold the key and value of the entry selected after the step
FlushedAndLoaded(items, editor, after, editorAfter) ==
    LET left == SelectionIndex(editor) + 1
        onto == SelectionIndex(editorAfter) + 1
    IN Len(items) > 0 =>
          /\ Len(after) = Len(items)
          /\ left \in 1..Len(items)
          /\ onto \in 1..Len(items)
          /\ after[left] = [enabled |-> items[left].enabled,
                            key |-> editor.key_input,
                            value |-> editor.value_input]
          /\ \A i \in 1..Len(items) : i # left => after[i] = items[i]
          /\ editorAfter.key_input = after[onto].key
          /\ editorAfter.value_input = after[onto].value

BlankOrJsonTexts == {<<>>, <<" ">>, <<"{", "}">>, <<"[", " ", "1", "]">>}

\* the inputs show the key and value of the selected entry, if there is one
LoadedIntoInputs(items, editor, editorAfter) ==
    LET sel == SelectionIndex(editor) + 1 IN
    /\ editorAfter.state = editor.state
    /\ editorAfter.field = editor.field
    /\ IF sel \in 1..Len(items)
       THEN /\ editorAfter.key_input = items[sel].key
            /\ editorAfter.value_input = items[sel].value
       ELSE editorAfter = editor

\* the selected entry, if there is one, has the key and value of the inputs;
\* its enabled flag and the other entries are as before
WrittenBack(items, editor, after) ==
    LET sel == SelectionIndex(editor) + 1 IN
    /\ Len(after) = Len(items)
    /\ \A i \in 1..Len(items) :
          after[i] = IF i = sel
                     THEN [enabled |-> items[i].enabled,
                           key |-> editor.key_input,
                           value |-> editor.value_input]
                     ELSE items[i]

\* C23: start_editing(KeyValue) loads the selected entry's key and value
\* into the sub-field editors; stop_editing from KeyValue writes the
\* editors' text back into the selected entry; stop_editing from Body
\* re-validates the body as JSON (json_error is None exactly when the body
\* is blank or a JSON value); stop_editing from any focus ends with
\* EditFocus = None.
EditFocusSyncs ==
    /\ [][start_editing("KeyValue") =>
            /\ edit_focus' = "KeyValue"
            /\ UNCHANGED <<params, headers>>
            /\ IF active_tab = "Params"
               THEN /\ LoadedIntoInputs(params, params_editor, params_editor')
                    /\ UNCHANGED headers_editor
               ELSE /\ LoadedIntoInputs(headers, headers_editor,
                                        headers_editor')
                    /\ UNCHANGED params_editor]_vars
    /\ [][stop_editing =>
            /\ edit_focus' = "None"
            /\ UNCHANGED <<params_editor, headers_editor, body>>
            /\ IF edit_focus = "KeyValue"
               THEN IF active_tab = "Params"
                    THEN /\ WrittenBack(params, params_editor, params')
                         /\ UNCHANGED headers
                    ELSE /\ WrittenBack(headers, headers_editor, headers')
                         /\ UNCHANGED params
               ELSE UNCHANGED <<params, headers>>
            /\ IF edit_focus = "Body"
               THEN json_error' = IF body \in BlankOrJsonTexts
                                  THEN "None"
                                  ELSE "Some"
               ELSE UNCHANGED json_error]_vars

\* the key typed into the only params entry was written back when editing
\* stopped, and the body "{a" typed afterwards was found not to be JSON when
\* editing stopped again
EditFocusSyncsWitness ==
    /\ edit_focus = "None"
    /\ Len(params) = 1
    /\ params[1].key = <<"k">>
    /\ params_editor.key_input = <<"k">>
    /\ body = <<"{", "a">>
    /\ json_error = "Some"

(***************************************************************************)
(* Cyclic selection.                                                       *)
(***************************************************************************)
RECURSIVE NextTimes(_, _, _)
NextTimes(editor, len, k) ==
    IF k = 0 THEN editor ELSE NextTimes(select_next(editor, len), len, k - 1)

RECURSIVE PrevTimes(_, _, _)
PrevTimes(editor, len, k) ==
    IF k = 0 THEN editor ELSE PrevTimes(select_prev(editor, len), len, k - 1)

\* select-next and select-prev of a collection editor on a list of n entries,
\* as the displayed selection (SelectionIndex) shows them
EditorCycles(editor, n) ==
    LET i == SelectionIndex(editor) IN
    IF n = 0
    THEN /\ select_next(editor, n) = editor
         /\ select_prev(editor, n) = editor
    ELSE /\ SelectionIndex(select_next(editor, n)) = (i + 1) % n
         /\ SelectionIndex(select_prev(editor, n)) = (i + n - 1) % n
         /\ SelectionIndex(select_prev(select_next(editor, n), n)) = i
         /\ SelectionIndex(select_next(select_prev(editor, n), n)) = i
         /\ SelectionIndex(NextTimes(editor, n, n)) = i
         /\ SelectionIndex(PrevTimes(editor, n, n)) = i

\* C24: on a non-empty list of length n, select-next moves the displayed
\* selection from i to (i+1) mod n and select-prev moves it from i to
\* (i-1) mod n, for the two collection editors and for the sidebar's history
\* list; the two are mutual inverses, n applications of either return to the
\* start, and both change nothing on an empty list.
SelectionIsCyclic ==
    /\ [](/\ EditorCycles(params_editor, Len(params))
          /\ EditorCycles(headers_editor, Len(headers)))
    /\ [][select_next_request =>
            IF requests = <<>>
            THEN UNCHANGED sidebar_state
            ELSE selected_request' = (selected_request + 1) % Len(requests)]_vars
    /\ [][select_prev_request =>
            IF requests = <<>>
            THEN UNCHANGED sidebar_state
            ELSE selected_request' =
                    (selected_request + Len(requests) - 1) % Len(requests)]_vars

(***************************************************************************)
(* The sidebar's history list.                                             *)
(***************************************************************************)
\* a blank Request: method GET, empty URL, no params, no headers, empty body
BlankRequest ==
    [method |-> "Get", url |-> <<>>, params |-> <<>>, headers |-> <<>>,
     body |-> <<>>]

\* C25: sidebar add prepends a blank Request (method GET, empty URL, no
\* params, no headers, empty body) at index 0 and keeps the existing
\* requests in their order, selects index 0, points the edit pointer at
\* index 0, and enters edit focus.
SidebarAddEntersEditFocus ==
    [][(add_request(DefaultRequest) \/ new_request) =>
         /\ requests' = <<BlankRequest>> \o requests
         /\ sidebar_state' = 0
         /\ editing_request_idx' = 0
         /\ edit_focus' # "None"]_vars

\* C25, amended: sidebar add prepends a blank Request at index 0 and keeps
\* the existing requests in their order, selects index 0 and points the edit
\* pointer at index 0; it does not enter edit focus: EditFocus and the
\* focused panel are left as they were.
SidebarAddKeepsEditFocus ==
    [][(add_request(DefaultRequest) \/ new_request) =>
         /\ requests' = <<BlankRequest>> \o requests
         /\ sidebar_state' = 0
         /\ editing_request_idx' = 0
         /\ UNCHANGED <<edit_focus, focused_panel>>]_vars

\* a blank request was added in front of a stored one while the body was
\* being edited
SidebarAddKeepsEditFocusWitness ==
    /\ Len(requests) = 2
    /\ requests[1] = BlankRequest
    /\ requests[2] \in StoredRequests
    /\ sidebar_state = 0
    /\ editing_request_idx = 0
    /\ edit_focus = "Body"

\* the index the sidebar shows as selected: 0 when the list widget has none
SidebarSelection == IF sidebar_state = None THEN 0 ELSE sidebar_state

\* C26: after delete-selected on the history list the edit pointer is
\* cleared if it pointed at the removed Request, is decremented if it was
\* above the removed index, so that it still denotes the same Request, and
\* is unchanged otherwise; in every reachable state with a non-empty
\* history list the edit pointer (when set) and the sidebar selection are
\* valid indices of the list.
DeleteAdjustsEditPointer ==
    /\ [](requests # <<>> =>
             /\ SidebarSelection \in 0..(Len(requests) - 1)
             /\ editing_request_idx # None =>
                    editing_request_idx \in 0..(Len(requests) - 1))
    /\ [][(requests # <<>> /\ delete_selected_request) =>
            LET removed == SidebarSelection IN
            /\ Len(requests') = Len(requests) - 1
            /\ \A i \in 1..Len(requests') :
                  requests'[i] = IF i <= removed
                                 THEN requests[i]
                                 ELSE requests[i + 1]
            /\ editing_request_idx = None => editing_request_idx' = None
            /\ editing_request_idx = removed => editing_request_idx' = None
            /\ (editing_request_idx # None /\ editing_request_idx > removed) =>
                  /\ editing_request_idx' = editing_request_idx - 1
                  /\ requests'[editing_request_idx' + 1]
                        = requests[editing_request_idx + 1]
            /\ (editing_request_idx # None /\ editing_request_idx < removed) =>
                  /\ editing_request_idx' = editing_request_idx
                  /\ requests'[editing_request_idx' + 1]
                        = requests[editing_request_idx + 1]]_vars

\* the request the edit pointer pointed at was deleted from in front of a
\* stored request: the pointer is cleared (only a delete clears it) and the
\* selection is on the request that is left
DeleteAdjustsEditPointerWitness ==
    /\ Len(requests) = 1
    /\ requests[1] \in StoredRequests
    /\ editing_request_idx = None
    /\ sidebar_state = 0

\* C27: editing the working copy (the URL, method cycling, the body, and
\* every collection operation on params or headers) never changes a Request
\* stored in the history list; the entries of the history list change only
\* through add, delete, or an explicit update.
EditingLeavesHistory ==
    [][requests' # requests =>
         /\ \/ \E request \in HistoryRequests : add_request(request)
            \/ new_request
            \/ delete_selected_request
            \/ \E idx \in 0..MaxRequests : \E request \in HistoryRequests :
                  update_request(idx, request)
         /\ ~(\/ EditUrl(UrlExample)
              \/ cycle_method_next
              \/ cycle_method_prev
              \/ EditBody(<<"a">>)
              \/ kv_add
              \/ kv_delete
              \/ kv_toggle_enabled
              \/ kv_select_next
              \/ kv_select_prev
              \/ kv_toggle_field
              \/ \E focus \in EditFocuses : start_editing(focus)
              \/ stop_editing
              \/ load_selected_request
              \/ select_next_request
              \/ select_prev_request)]_vars

\* the stored request was loaded and its working copy edited in every part
\* (URL, method, body, params) while the history entry is as it was stored
EditingLeavesHistoryWitness ==
    /\ editing_request_idx = 0
    /\ Len(requests) = 1
    /\ requests[1] \in StoredRequests
    /\ url_input = UrlExample
    /\ method # requests[1].method
    /\ body = <<"a">>
    /\ Len(params) = 2
    /\ params[1].enabled = FALSE

\* the Request the working copy describes
WorkingCopy ==
    [method |-> method, url |-> url_input, params |-> params,
     headers |-> headers, body |-> body]

\* C28: a send persists the editor's working copy into the history list:
\* after an accepted send (one that dispatches), the history entry the edit
\* pointer designates has the working copy's method, URL, params, headers
\* and body.
SendPersistsWorkingCopy ==
    [][(SendRequest /\ next_id' = next_id + 1) =>
         (editing_request_idx' # None =>
             /\ editing_request_idx' < Len(requests')
             /\ requests'[editing_request_idx' + 1] = WorkingCopy')]_vars

\* C29: load-selected on a history list that is not empty makes the working
\* copy (URL, method, params, headers, body) equal to the selected Request,
\* sets the edit pointer to the selected index, resets both collection
\* editors and leaves the history list unchanged; on an empty history list
\* it changes nothing.
LoadedSelected ==
    /\ WorkingCopy' = requests[SidebarSelection + 1]
    /\ editing_request_idx' = SidebarSelection
    /\ selected(params_editor') = 0
    /\ selected(headers_editor') = 0
    /\ params_editor'.field = "Key"
    /\ headers_editor'.field = "Key"
    /\ params_editor'.key_input = <<>>
    /\ params_editor'.value_input = <<>>
    /\ headers_editor'.key_input = <<>>
    /\ headers_editor'.value_input = <<>>
    /\ requests' = requests

LoadSelectedClones ==
    [][load_selected_request =>
          IF requests # <<>> THEN LoadedSelected ELSE UNCHANGED vars]_vars

\* C30: while the application is editing (EditFocus other than None), no key
\* press changes the focused panel or the sidebar selection: Tab, BackTab,
\* h, l, j, k and the arrow keys go to the field being edited (the typed
\* letter is put at the cursor; the other keys touch nothing but the URL
\* text, its cursor and the method); is_editing() holds exactly when
\* EditFocus is not None.
PanelNavigationKeys ==
    {Key(code, FALSE, FALSE) :
        code \in {"Tab", "BackTab", "h", "l", "j", "k",
                  "Left", "Right", "Up", "Down"}}

TypedAtCursor(c) ==
    /\ Len(url_input') = Len(url_input) + 1
    /\ url_input'[cursor + 1] = c
    /\ cursor' = cursor + 1

OnlyTheFieldChanges ==
    UNCHANGED <<request_state, response_scroll, requests, sidebar_state,
                editing_request_idx, bridgeVars, help_scroll, params,
                headers, body, data, built, kvEditVars, json_error, uiVars>>

EditingCapturesKeys ==
    /\ [](is_editing <=> edit_focus # "None")
    /\ [][edit_focus # "None" =>
             /\ focused_panel' = focused_panel
             /\ sidebar_state' = sidebar_state]_vars
    /\ [][\A key \in PanelNavigationKeys :
             (edit_focus # "None" /\ KeyPress(key)) =>
                /\ OnlyTheFieldChanges
                /\ key.code \in {"h", "l", "j", "k"} => TypedAtCursor(key.code)
                /\ key.code \in {"Up", "Down"} => UNCHANGED vars]_vars

\* editing the URL with a sidebar selection that j or k would move, the
\* letter j typed into the field
EditingCapturesKeysWitness ==
    /\ edit_focus = "Url"
    /\ focused_panel = "RequestEditor"
    /\ Len(requests) = 2
    /\ sidebar_state = 1
    /\ url_input = <<"j">>
    /\ method = "Post"

\* C31 as stated: in every UI mode (help overlay shown, editing a field, any
\* focused panel) the quit key sets should_quit, the help key toggles the
\* help overlay, and the send key triggers a send.
QuitKeys == {Key("q", FALSE, FALSE), Key("Esc", FALSE, FALSE),
             Key("c", TRUE, FALSE)}

HelpKeys == {Key("?", FALSE, FALSE)}

SendKeys == {Key("s", TRUE, FALSE)}

GlobalShortcutsFirst ==
    [][\A key \in Keys :
          KeyPress(key) =>
             /\ key \in QuitKeys => should_quit'
             /\ key \in HelpKeys => show_help' = ~show_help
             /\ key \in SendKeys => SendRequest]_vars

\* C31, amended: the shortcuts are routed by mode.  With no overlay shown and
\* no field being edited, on every focused panel, the quit keys set
\* should_quit, the help key opens the help overlay at its top and the send
\* key triggers a send.  While a field is edited only the send key keeps its
\* meaning: Esc leaves editing, q and ? are typed, Ctrl+c is typed as c, and
\* no key quits or opens the overlay.  While the help overlay is shown q, Esc
\* and ? close it without quitting and the send key does nothing.
NormalMode == ~should_quit /\ ~show_help /\ edit_focus = "None"

ShortcutInNormalMode(key) ==
    /\ key \in QuitKeys => should_quit' /\ focused_panel' = focused_panel
    /\ key \in HelpKeys => show_help' /\ help_scroll' = 0
    /\ key \in SendKeys => SendRequest

ShortcutWhileEditing(key) ==
    /\ ~should_quit' /\ ~show_help'
    /\ key \in SendKeys => SendRequest
    /\ key.code = "Esc" => edit_focus' = "None"
    /\ key.code \in {"q", "?", "c"} => TypedAtCursor(key.code)

ShortcutInHelp(key) ==
    /\ ~should_quit'
    /\ key.code \in {"q", "Esc", "?"} => ~show_help'
    /\ key \in SendKeys \cup {Key("c", TRUE, FALSE)} => UNCHANGED vars

ShortcutsRoutedByMode ==
    /\ [](NormalMode =>
             /\ \A key \in QuitKeys : ENABLED (KeyPress(key) /\ should_quit')
             /\ \A key \in HelpKeys : ENABLED (KeyPress(key) /\ show_help'))
    /\ [][\A key \in QuitKeys \cup HelpKeys \cup SendKeys :
             KeyPress(key) =>
                IF show_help THEN ShortcutInHelp(key)
                ELSE IF edit_focus # "None" THEN ShortcutWhileEditing(key)
                ELSE ShortcutInNormalMode(key)]_vars

\* quit after a send was started from the editor with q typed into the URL
ShortcutsRoutedByModeWitness ==
    /\ should_quit
    /\ url_input = <<"q">>
    /\ request_state.tag = "Loading"
    /\ focused_panel = "RequestEditor"

\* C32: Panel next cycles Sidebar -> Editor -> Response -> Sidebar, prev is
\* its inverse (prev(next(p)) = next(prev(p)) = p for every panel p), and
\* three applications of either return to the starting panel.
PanelOrder == <<"Sidebar", "RequestEditor", "Response">>

PanelPosition(panel) == CHOOSE i \in 1..3 : PanelOrder[i] = panel

PanelsCycle ==
    /\ [](/\ focused_panel \in Panels
          /\ PanelNext(focused_panel) =
                PanelOrder[(PanelPosition(focused_panel) % 3) + 1]
          /\ PanelPrev(PanelNext(focused_panel)) = focused_panel
          /\ PanelNext(PanelPrev(focused_panel)) = focused_panel
          /\ PanelNext(PanelNext(PanelNext(focused_panel))) = focused_panel
          /\ PanelPrev(PanelPrev(PanelPrev(focused_panel))) = focused_panel)
    /\ [][focus_next_panel =>
             focused_panel' =
                PanelOrder[(PanelPosition(focused_panel) % 3) + 1]]_vars
    /\ [][focus_prev_panel =>
             focused_panel =
                PanelOrder[(PanelPosition(focused_panel') % 3) + 1]]_vars

\* the response panel focused, which only the panel operations bring about
PanelsCycleWitness ==
    /\ focused_panel = "Response"
    /\ Len(requests) = 1

\* C33: each pass of the event loop takes at most one message off the result
\* queue, with a receive that does not block (the pass goes on when the
\* queue is empty), and reads at most one key event; a step applies a
\* result or routes a key, never both, and results are applied one at a
\* time; a key event that is not a press changes no state.
EventLoopOneAtATime ==
    /\ [](/\ loop.pc \in LoopPcs
          /\ loop.recvs <= 1
          /\ loop.keys <= 1
          /\ loop.pc = "recv" => ENABLED LoopRecv)
    /\ [][/\ Len(applied') <= Len(applied) + 1
          /\ Len(rx') < Len(rx) =>
                /\ loop.pc = "recv"
                /\ Len(rx') = Len(rx) - 1
                /\ Len(applied') = Len(applied) + 1
                /\ loop'.recvs = loop.recvs + 1
                /\ loop'.keys = loop.keys
          /\ loop'.keys > loop.keys =>
                /\ loop.pc = "poll"
                /\ loop'.keys = loop.keys + 1
                /\ <<rx, applied>>' = <<rx, applied>>]_vars
    /\ [][LoopKeyNotPress => UNCHANGED appState]_vars

\* a pass that applied a result and then routed a key press
EventLoopOneAtATimeWitness ==
    /\ loop.recvs = 1
    /\ loop.keys = 1
    /\ loop.pc = "check"
    /\ Len(applied) = 1

\* C34: rendering a frame is a pure read: across a render call every field
\* of the application state (focused panel, edit focus, sidebar and
\* collection selections, lists, RequestState, scroll offsets) is unchanged.
RenderIsPureRead == [][LoopDraw => UNCHANGED appState]_vars

\* C35: in every reachable state the response scroll offset lies below the
\* displayable line count of the response shown, whichever count its body
\* has, and is 0 when RequestState is not Success or the body has no lines.
ResponseScrollInsideBody ==
    \A lines \in ResponseLineCounts :
        IF lines = 0 THEN response_scroll = 0 ELSE response_scroll < lines

\* the bodies of JsonSpec that are blank, and those that are JSON values,
\* each with the text serde_json prints for it
BlankBodies == {<<>>, <<" ">>, <<"\n">>}

PrettyBodies ==
    {<<<<"{", " ", "}">>, <<"{", "}">>>>,
     <<<<"{", "}">>, <<"{", "}">>>>,
     <<<<"1", "1">>, <<"1", "1">>>>,
     <<<<"[", "1", "]">>, <<"[", "\n", " ", " ", "1", "\n", "]">>>>,
     <<<<"[", "\n", " ", " ", "1", "\n", "]">>,
       <<"[", "\n", " ", " ", "1", "\n", "]">>>>,
     <<<<"[", "[", "]", "]">>, <<"[", "\n", " ", " ", "[", "]", "\n", "]">>>>,
     <<<<"[", "\n", " ", " ", "[", "]", "\n", "]">>,
       <<"[", "\n", " ", " ", "[", "]", "\n", "]">>>>}

JsonBodies == {p[1] : p \in PrettyBodies}

BodyWasValidated ==
    \/ edit_focus = "Body" /\ stop_editing
    \/ selected_request < Len(requests) /\ load_selected_request
    \/ new_request

\* C36: after set_body, or stop_editing from Body focus, json_error is None
\* exactly when the body is blank or parses as JSON; format_json replaces a
\* body that is valid JSON by its pretty-printed form with json_error None,
\* and leaves any other body and json_error as they were.
JsonErrorFollowsBody ==
    /\ [][BodyWasValidated =>
             (json_error' = "None" <=> body' \in BlankBodies \cup JsonBodies)
         ]_vars
    /\ [][format_json =>
             IF body \in JsonBodies
             THEN /\ <<body, body'>> \in PrettyBodies
                  /\ json_error' = "None"
             ELSE UNCHANGED <<body, json_error>>]_vars
    /\ [](body \notin JsonBodies =>
             ENABLED (format_json /\ UNCHANGED <<vars>>))

\* a body that is not JSON was typed and the Body focus left, then
\* format_json left it alone
JsonErrorFollowsBodyWitness ==
    /\ body = <<"[", "1">>
    /\ json_error = "Some"
    /\ edit_focus = "None"

\* C37: deleting the selected entry while a key/value entry is edited does
\* not alter an entry that is left: what the next select-next, select-prev
\* or stop_editing writes back from the inputs (each starts with
\* sync_kv_items_from_editor) leaves the list as the entries that survived.
DeleteKeepsSurvivors ==
    [][(/\ edit_focus = "KeyValue"
        /\ Len(current_kv_items) > 0
        /\ kv_delete) =>
           sync_kv_items_from_editor(current_kv_items', current_kv_editor')
              = RemoveAt(current_kv_items, selected(current_kv_editor))
      ]_vars

\* C38: adding an entry while a key/value entry is edited does not lose the
\* edit in progress: the entries there were before are left as
\* sync_kv_items_from_editor stores the inputs' text in them, the entry
\* selected before the add holding the text typed.
AddKeepsEditInProgress ==
    [][(edit_focus = "KeyValue" /\ kv_add) =>
           SubSeq(current_kv_items', 1, Len(current_kv_items))
              = sync_kv_items_from_editor(current_kv_items,
                                          current_kv_editor)
      ]_vars

\* C39: once a quit key has set should_quit, the loop ends at the end of
\* that iteration: the only step the loop takes from there is the break,
\* and no key event is routed, no dispatch result applied and nothing of
\* the application changed, also while a request is in flight.
QuitEndsTheLoop ==
    /\ [](should_quit => loop.pc \in {"check", "done"})
    /\ [](loop.pc = "done" => should_quit)
    /\ [](should_quit /\ loop.pc = "check" =>
             ENABLED (LoopCheckQuit /\ loop'.pc = "done"))
    /\ [][~should_quit /\ should_quit' =>
             /\ loop.pc = "poll"
             /\ loop'.pc = "check"
             /\ loop'.keys = loop.keys + 1]_vars
    /\ [][should_quit =>
             /\ <<appVars, extVars, applied, next_id>>'
                   = <<appVars, extVars, applied, next_id>>
             /\ Len(rx') >= Len(rx)
             /\ loop' # loop =>
                   /\ loop.pc = "check"
                   /\ loop' = [loop EXCEPT !.pc = "done"]]_vars

\* the loop has ended on a quit key with a request still in flight
QuitEndsTheLoopWitness ==
    /\ should_quit
    /\ loop.pc = "done"
    /\ request_state = Loading
    /\ tasks # {}

====
